---- MODULE Spec2Model ----
(***************************************************************************)
(* A model of usn-journal-rs: the buffered record-stream readers           *)
(* (journal.rs UsnJournalIter, mft.rs MftIter) over the bulk-read channel  *)
(* DeviceIoControl, and the cached path resolver (path.rs).                *)
(*                                                                         *)
(* The reader's buffer is a sequence of bytes laid out as the channel       *)
(* writes it: an 8-byte little-endian cursor at byte 0, then USN_RECORD_V2 *)
(* records.  The channel is external; its outcomes (data, end of data,     *)
(* another failure, a buffer whose first record reports a wrong length)    *)
(* are nondeterministic choices.                                           *)
(***************************************************************************)
EXTENDS Integers, Sequences, FiniteSets, TLC

VARIABLES
    kind,     \* which reader was constructed: "journal" (UsnJournalIter) or "mft" (MftIter)
    store,    \* the volume's records (journal records in usn order / table records in fid order)
    it,       \* the reader: buffer, bytes_read, offset, next_start (next_start_usn / next_start_fid)
    log,      \* history: the bulk reads, cursor captures, record decodes and returns, in program order
    served,   \* history: the records the channel has written into buffers, in order
    tiled,    \* history: every successful bulk read so far was a cursor plus exactly tiling records
    resolver, \* the PathResolver: its dir_fid_path_cache (none, or an LRU cache)
    last,     \* history: the last resolve_path call: entry, system lookups, result, cache before
    journal,  \* the volume's change journal: active or not, its id, size and growth
    reader,   \* the UsnJournalIter built by iter / iter_with_options: its request fields and cursor
    op,       \* history: the last call on the journal or a reader: arguments, control requests issued in order, result
    made,     \* history: how the reader was built: by which call, with which options, from which query
    reads,    \* history: the bulk-read requests the built reader has issued, in order
    calc,     \* history: the last call of a function on its own: its inputs and what it returned
    duo       \* two readers and two resolvers over one volume, each with the answers it was given

iterVars == <<kind, store, it, log, served, tiled>>
pathVars == <<resolver, last>>
mgmtVars == <<journal, reader, op, made, reads>>
unitVars == <<calc, duo>>
vars == <<kind, store, it, log, served, tiled, resolver, last, journal, reader, op, made, reads,
          calc, duo>>

----------------------------------------------------------------------------
(* Bounds *)

MaxRecords == 3      \* records the volume ever holds
MaxCalls == 4        \* next() calls on the reader
BufferSize == 144    \* options.buffer_size: the cursor and two records
MaxPathLen == 3      \* components of the longest path resolved
SmallCapacity == 2   \* a cache capacity small enough for the model to fill
MaxJournals == 2     \* journals ever created on the volume
MaxReads == 3        \* bulk reads a built journal reader issues
MaxPairCalls == 2    \* calls made on each of two instances over one volume

(* Layout of the bulk-read result and of USN_RECORD_V2 *)

CursorSize == 8          \* size_of::<Usn>() / size_of::<u64>()
OffRecordLength == 0     \* RecordLength: u32
OffFileReferenceNumber == 8
OffParentFileReferenceNumber == 16
OffUsn == 24
OffReason == 40
OffFileAttributes == 52
OffFileNameLength == 56
OffFileName == 60        \* record.FileName.as_ptr()
OffTimeStamp == 32                  \* TimeStamp
OffFileNameOffset == 58             \* FileNameOffset
SizeOfUsnRecordV2 == 64             \* size_of::<USN_RECORD_V2>()
FILE_ATTRIBUTE_HIDDEN == 2
FILE_ATTRIBUTE_DIRECTORY == 16

ERROR_HANDLE_EOF == "ERROR_HANDLE_EOF"
OtherErrors == {"ERROR_INVALID_HANDLE", "ERROR_JOURNAL_ENTRY_DELETED"}

Kinds == {"journal", "mft"}
Names == <<  <<97>>, <<97, 98, 99>>  >>   \* names (UTF-16 code units) the volume's records take in turn
BadLens == {0, 200}                   \* wrong RecordLength values a corrupted buffer reports

----------------------------------------------------------------------------
(* Bytes *)

RECURSIVE LE(_, _)
\* the w little-endian bytes of n (two's complement when n is negative)
LE(n, w) == IF w = 0 THEN <<>> ELSE <<n % 256>> \o LE(n \div 256, w - 1)

Zeros(n) == [i \in 1..n |-> 0]

\* the byte at 0-based index i
ByteAt(buf, i) == buf[i + 1]

RECURSIVE ReadLE(_, _, _)
\* the unsigned w-byte little-endian integer at byte offset off
ReadLE(buf, off, w) ==
    IF w = 0 THEN 0
    ELSE ByteAt(buf, off) + 256 * ReadLE(buf, off + 1, w - 1)

RECURSIVE ReadComplementLE(_, _, _)
\* the same integer with every byte complemented
ReadComplementLE(buf, off, w) ==
    IF w = 0 THEN 0
    ELSE (255 - ByteAt(buf, off)) + 256 * ReadComplementLE(buf, off + 1, w - 1)

\* the 8 bytes at off read as i64 (two's complement)
ReadI64(buf, off) ==
    IF ByteAt(buf, off + 7) >= 128
    THEN 0 - (1 + ReadComplementLE(buf, off, 8))
    ELSE ReadLE(buf, off, 8)

RECURSIVE ReadName(_, _, _)
\* n UTF-16 code units starting at byte offset off
ReadName(buf, off, n) ==
    IF n = 0 THEN <<>>
    ELSE <<ReadLE(buf, off, 2)>> \o ReadName(buf, off + 2, n - 1)

----------------------------------------------------------------------------
(* The volume's records and the channel *)

Align8(n) == ((n + 7) \div 8) * 8

RecordLengthOf(r) == Align8(OffFileName + 2 * Len(r.name))

RECURSIVE NameBytes(_)
NameBytes(name) ==
    IF name = <<>> THEN <<>> ELSE LE(Head(name), 2) \o NameBytes(Tail(name))

\* the bytes of one record, with RecordLength field len
EncodeRecord(r, len) ==
    LET body ==
            LE(len, 4) \o LE(2, 2) \o LE(0, 2)
            \o LE(r.fid, 8) \o LE(r.parent, 8) \o LE(r.usn, 8) \o LE(0, 8)
            \o LE(r.reason, 4) \o LE(0, 4) \o LE(0, 4) \o LE(r.attrs, 4)
            \o LE(2 * Len(r.name), 2) \o LE(OffFileName, 2)
            \o NameBytes(r.name)
    IN  body \o Zeros(RecordLengthOf(r) - Len(body))

\* the cursor a record is found by: its usn in the journal, its file id in the table
Key(k, r) == IF k = "journal" THEN r.usn ELSE r.fid

\* the cursor after record r
KeyAfter(k, r) == IF k = "journal" THEN r.usn + RecordLengthOf(r) ELSE r.fid + 1

RECURSIVE Fit(_, _)
\* the longest prefix of recs that fits in room bytes
Fit(recs, room) ==
    IF recs = <<>> \/ RecordLengthOf(Head(recs)) > room THEN <<>>
    ELSE <<Head(recs)>> \o Fit(Tail(recs), room - RecordLengthOf(Head(recs)))

RECURSIVE EncodeAll(_)
EncodeAll(recs) ==
    IF recs = <<>> THEN <<>>
    ELSE EncodeRecord(Head(recs), RecordLengthOf(Head(recs))) \o EncodeAll(Tail(recs))

\* the records a bulk read starting at cursor start returns
Batch(k, st, start) ==
    Fit(SelectSeq(st, LAMBDA r : Key(k, r) >= start), BufferSize - CursorSize)

\* the cursor such a bulk read returns in its first 8 bytes
NextCursor(k, st, start) ==
    LET b == Batch(k, st, start)
    IN  IF b = <<>> THEN start ELSE KeyAfter(k, b[Len(b)])

\* a successful bulk read: the bytes written to the buffer
GoodBytes(k, st, start) ==
    LE(NextCursor(k, st, start), CursorSize) \o EncodeAll(Batch(k, st, start))

\* a successful bulk read whose first record reports the length bad
BadBytes(k, st, start, bad) ==
    LET b == Batch(k, st, start)
    IN  LE(NextCursor(k, st, start), CursorSize)
        \o EncodeRecord(b[1], bad) \o EncodeAll(Tail(b))

\* the outcomes DeviceIoControl can have for a bulk read starting at start
Responses(k, st, start) ==
    {[res |-> "ok", bytes |-> GoodBytes(k, st, start), recs |-> Batch(k, st, start),
      good |-> TRUE, code |-> "none"]}
    \cup {[res |-> "ok", bytes |-> BadBytes(k, st, start, bad), recs |-> Batch(k, st, start),
           good |-> FALSE, code |-> "none"] :
            bad \in IF Batch(k, st, start) = <<>> THEN {} ELSE BadLens}
    \cup {[res |-> "err", bytes |-> <<>>, recs |-> <<>>, good |-> TRUE, code |-> c] :
            c \in {ERROR_HANDLE_EOF} \cup OtherErrors}

----------------------------------------------------------------------------
(* Timestamps *)

\* the 16 hexadecimal digits of the u64 with little-endian bytes b, lowest first
Nibbles(b) ==
    [i \in 1..16 |-> IF i % 2 = 1 THEN (b[(i + 1) \div 2]) % 16 ELSE (b[i \div 2]) \div 16]

\* the 8 little-endian bytes of the u64 with hexadecimal digits n
FromNibbles(n) == [j \in 1..8 |-> n[2 * j - 1] + (16 * n[2 * j])]

RECURSIVE DivRem(_, _, _, _)
\* long division by d of the digits n[1..i] below the remainder r carried in
DivRem(n, i, d, r) ==
    IF i = 0 THEN [q |-> <<>>, r |-> r]
    ELSE LET cur == (r * 16) + n[i]
             rest == DivRem(n, i - 1, d, cur % d)
         IN  [q |-> Append(rest.q, cur \div d), r |-> rest.r]

\* u64 / d and u64 % d, for the u64 with bytes b
U64Div(b, d) == FromNibbles(DivRem(Nibbles(b), 16, d, 0).q)
U64Rem(b, d) == DivRem(Nibbles(b), 16, d, 0).r

\* an instant is the time since 1601-01-01 00:00:00 UTC: whole seconds (the 8 bytes
\* of a u64) and nanoseconds
WINDOWS_EPOCH_UTC == [secs |-> <<0, 0, 0, 0, 0, 0, 0, 0>>, nanos |-> 0]

\* SystemTime::UNIX_EPOCH: 11,644,473,600 seconds after the Windows epoch
UNIX_EPOCH == [secs |-> <<0, 145, 16, 182, 2, 0, 0, 0>>, nanos |-> 0]

\* variant: ticks taken for nanoseconds
filetime_to_systemtimeTicksAsNanos(filetime) ==
    IF filetime[8] >= 128
    THEN <<"Err", "OtherError", "FILETIME cannot be negative">>
    ELSE <<"Ok", [secs |-> U64Div(filetime, 10000000),
                  nanos |-> U64Rem(filetime, 10000000)]>>

\* variant: the 8 bytes are taken as unsigned, whatever the sign
filetime_to_systemtimeUnsigned(filetime) ==
    <<"Ok", [secs |-> U64Div(filetime, 10000000),
             nanos |-> U64Rem(filetime, 10000000) * 100]>>

\* filetime_to_systemtime, of the i64 with little-endian bytes filetime
filetime_to_systemtime(filetime) ==
    IF filetime[8] >= 128
    THEN <<"Err", "OtherError", "FILETIME cannot be negative">>
    ELSE <<"Ok", [secs |-> U64Div(filetime, 10000000),
                  nanos |-> U64Rem(filetime, 10000000) * 100]>>

\* Result::unwrap_or
unwrap_or(result, default) == IF result[1] = "Ok" THEN result[2] ELSE default

----------------------------------------------------------------------------
(* File names *)

RECURSIVE encode_utf16(_)
\* str::encode_utf16: the UTF-16 code units of a string of code points
encode_utf16(str) ==
    IF str = <<>> THEN <<>>
    ELSE LET c == Head(str)
         IN  (IF c < 65536 THEN <<c>>
              ELSE <<55296 + ((c - 65536) \div 1024), 56320 + ((c - 65536) % 1024)>>)
             \o encode_utf16(Tail(str))

RECURSIVE from_wide(_)
\* OsString::from_wide: the code points of a sequence of UTF-16 code units; a
\* surrogate without its pair is kept as it is
from_wide(wide) ==
    IF wide = <<>> THEN <<>>
    ELSE IF /\ Len(wide) >= 2
            /\ wide[1] \in 55296..56319
            /\ wide[2] \in 56320..57343
         THEN <<65536 + ((wide[1] - 55296) * 1024) + (wide[2] - 56320)>>
              \o from_wide(Tail(Tail(wide)))
         ELSE <<Head(wide)>> \o from_wide(Tail(wide))

----------------------------------------------------------------------------
(* Record decoder *)

\* variant: the name's UTF-16 code units are taken for its characters
UsnEntryNewRawUnits(buf, at) ==
    [usn |-> ReadI64(buf, at + OffUsn),
     time |-> unwrap_or(filetime_to_systemtime(
                            SubSeq(buf, at + OffTimeStamp + 1, at + OffTimeStamp + 8)),
                        UNIX_EPOCH),
     fid |-> ReadLE(buf, at + OffFileReferenceNumber, 8),
     parent_fid |-> ReadLE(buf, at + OffParentFileReferenceNumber, 8),
     reason |-> ReadLE(buf, at + OffReason, 4),
     file_name |-> ReadName(buf, at + OffFileName,
                            ReadLE(buf, at + OffFileNameLength, 2) \div 2),
     file_attributes |-> ReadLE(buf, at + OffFileAttributes, 4)]

\* UsnEntry::new: the fields of the record at byte offset at
UsnEntryNew(buf, at) ==
    [usn |-> ReadI64(buf, at + OffUsn),
     time |-> unwrap_or(filetime_to_systemtime(
                            SubSeq(buf, at + OffTimeStamp + 1, at + OffTimeStamp + 8)),
                        UNIX_EPOCH),
     fid |-> ReadLE(buf, at + OffFileReferenceNumber, 8),
     parent_fid |-> ReadLE(buf, at + OffParentFileReferenceNumber, 8),
     reason |-> ReadLE(buf, at + OffReason, 4),
     file_name |-> from_wide(ReadName(buf, at + OffFileName,
                                      ReadLE(buf, at + OffFileNameLength, 2) \div 2)),
     file_attributes |-> ReadLE(buf, at + OffFileAttributes, 4)]

\* MftEntry::new: the same record without the change reason
MftEntryNew(buf, at) ==
    [usn |-> ReadI64(buf, at + OffUsn),
     fid |-> ReadLE(buf, at + OffFileReferenceNumber, 8),
     parent_fid |-> ReadLE(buf, at + OffParentFileReferenceNumber, 8),
     file_name |-> from_wide(ReadName(buf, at + OffFileName,
                                      ReadLE(buf, at + OffFileNameLength, 2) \div 2)),
     file_attributes |-> ReadLE(buf, at + OffFileAttributes, 4)]

\* variant: a directory has the directory attribute and no other
entry_is_dirOnly(entry) == entry.file_attributes = FILE_ATTRIBUTE_DIRECTORY

\* UsnEntry::is_dir / MftEntry::is_dir: file_attributes contains FILE_ATTRIBUTE_DIRECTORY
entry_is_dir(entry) == (entry.file_attributes \div FILE_ATTRIBUTE_DIRECTORY) % 2 = 1

\* UsnEntry::is_hidden / MftEntry::is_hidden: file_attributes contains FILE_ATTRIBUTE_HIDDEN
entry_is_hidden(entry) == (entry.file_attributes \div FILE_ATTRIBUTE_HIDDEN) % 2 = 1

\* the entry a record of the volume decodes to when it is decoded where it starts
EntryOf(k, r) ==
    IF k = "journal"
    THEN [usn |-> r.usn, time |-> WINDOWS_EPOCH_UTC, fid |-> r.fid,
          parent_fid |-> r.parent, reason |-> r.reason,
          file_name |-> r.name, file_attributes |-> r.attrs]
    ELSE [usn |-> r.usn, fid |-> r.fid, parent_fid |-> r.parent,
          file_name |-> r.name, file_attributes |-> r.attrs]

----------------------------------------------------------------------------
(* Buffered record-stream reader *)

\* variant: the end-of-data code is not recognised
IsEofNever(code) == FALSE

\* variant: every failure is taken for end of data
IsEofAlways(code) == TRUE

\* err.code() == ERROR_HANDLE_EOF.into()
IsEof(code) == code = ERROR_HANDLE_EOF

\* variant: after end of data the reader starts over from cursor 0
get_dataRestartOnEof(itr, resp, zeroed) ==
    IF resp.res = "ok"
    THEN [ret |-> "true", code |-> "none",
          it |-> [itr EXCEPT
                    !.buffer = resp.bytes
                               \o SubSeq(itr.buffer, Len(resp.bytes) + 1, Len(itr.buffer)),
                    !.bytes_read = Len(resp.bytes)]]
    ELSE [ret |-> IF resp.code = ERROR_HANDLE_EOF THEN "false" ELSE "err", code |-> resp.code,
          it |-> [itr EXCEPT !.bytes_read = IF zeroed THEN 0 ELSE itr.bytes_read,
                             !.next_start = IF resp.code = ERROR_HANDLE_EOF THEN 0 ELSE @]]

\* variant: a failed read resets the cursor
get_dataRestartOnError(itr, resp, zeroed) ==
    IF resp.res = "ok"
    THEN [ret |-> "true", code |-> "none",
          it |-> [itr EXCEPT
                    !.buffer = resp.bytes
                               \o SubSeq(itr.buffer, Len(resp.bytes) + 1, Len(itr.buffer)),
                    !.bytes_read = Len(resp.bytes)]]
    ELSE [ret |-> IF resp.code = ERROR_HANDLE_EOF THEN "false" ELSE "err", code |-> resp.code,
          it |-> [itr EXCEPT !.bytes_read = IF zeroed THEN 0 ELSE itr.bytes_read,
                             !.next_start = IF resp.code = ERROR_HANDLE_EOF THEN @ ELSE 0]]

\* get_data: one bulk read with the reader's cursor.  ret is "true" (data read),
\* "false" (end of data) or "err".  A failed call leaves the buffer alone and
\* leaves bytes_read as it was or zeroes it (zeroed is TRUE).
get_data(itr, resp, zeroed) ==
    IF resp.res = "ok"
    THEN [ret |-> "true", code |-> "none",
          it |-> [itr EXCEPT
                    !.buffer = resp.bytes
                               \o SubSeq(itr.buffer, Len(resp.bytes) + 1, Len(itr.buffer)),
                    !.bytes_read = Len(resp.bytes)]]
    ELSE [ret |-> IF IsEof(resp.code) THEN "false" ELSE "err", code |-> resp.code,
          it |-> [itr EXCEPT !.bytes_read = IF zeroed THEN 0 ELSE itr.bytes_read]]

\* variant: every bulk read starts again at 0, the start value of the reader
CapturedCursorOriginal(k, buf, old) == 0

\* variant: the cursor is not taken from the refreshed buffer
CapturedCursorStale(k, buf, old) == old

\* std::ptr::read(self.buffer.as_ptr() as *const Usn / *const u64)
CapturedCursor(k, buf, old) ==
    IF k = "journal" THEN ReadI64(buf, 0) ELSE ReadLE(buf, 0, 8)

\* self.offset = size_of::<Usn>() as u32
AfterRefillOffset == CursorSize

\* self.offset += record.RecordLength (u32; the model's offsets and lengths stay
\* far below 2^32, where the addition is exact)
Advance(off, len) == off + len

\* variant: the offset is not moved past the record
TakeRecordStuck(itr) == itr

\* the record at the reader's offset is taken and the offset moves past it
TakeRecord(itr) ==
    [itr EXCEPT !.offset =
        Advance(itr.offset, ReadLE(itr.buffer, itr.offset + OffRecordLength, 4))]

\* find_next_entry.  ret is "some" (a record at byte offset at of it.buffer),
\* "none" or "err"; ev lists what was done, in order.
find_next_entry(k, itr, resp, zeroed) ==
    IF itr.offset < itr.bytes_read
    THEN [ret |-> "some", at |-> itr.offset, code |-> "none", read |-> FALSE,
          it |-> TakeRecord(itr),
          ev |-> << <<"decode", itr.offset>> >>]
    ELSE
      LET d == get_data(itr, resp, zeroed)
          \* the bulk read: start cursor as passed, outcome ("ok" or the error code),
          \* the result's first 8 bytes, the reader's offset and bytes_read at the
          \* call, the bytes the call filled
          rd == <<"read", LE(itr.next_start, CursorSize),
                  IF resp.res = "ok" THEN "ok" ELSE resp.code,
                  IF resp.res = "ok" THEN SubSeq(resp.bytes, 1, CursorSize) ELSE <<>>,
                  itr.offset, itr.bytes_read, Len(resp.bytes)>>
      IN
      IF d.ret = "err"
      THEN [ret |-> "err", at |-> 0, code |-> d.code, read |-> TRUE, it |-> d.it,
            ev |-> <<rd>>]
      ELSE IF d.ret = "true"
      THEN
        LET c == CapturedCursor(k, d.it.buffer, itr.next_start)
            i1 == [d.it EXCEPT !.next_start = c, !.offset = AfterRefillOffset]
        IN  IF i1.offset < i1.bytes_read
            THEN [ret |-> "some", at |-> i1.offset, code |-> "none", read |-> TRUE,
                  it |-> TakeRecord(i1),
                  ev |-> <<rd, <<"capture", LE(c, CursorSize)>>, <<"decode", i1.offset>> >>]
            ELSE [ret |-> "none", at |-> 0, code |-> "none", read |-> TRUE, it |-> i1,
                  ev |-> <<rd, <<"capture", LE(c, CursorSize)>> >>]
      ELSE [ret |-> "none", at |-> 0, code |-> "none", read |-> TRUE, it |-> d.it,
            ev |-> <<rd>>]

\* variant: a failure is logged and the sequence ends
NextItemSwallow(k, f) ==
    IF f.ret = "some"
    THEN <<"Ok", IF k = "journal" THEN UsnEntryNew(f.it.buffer, f.at)
                 ELSE MftEntryNew(f.it.buffer, f.at)>>
    ELSE <<"None">>

\* Iterator::next: the item returned for find_next_entry's result f
NextItem(k, f) ==
    IF f.ret = "some"
    THEN <<"Ok", IF k = "journal" THEN UsnEntryNew(f.it.buffer, f.at)
                 ELSE MftEntryNew(f.it.buffer, f.at)>>
    ELSE IF f.ret = "none" THEN <<"None">>
    ELSE <<"Err", "WinApiError", f.code>>

Calls == Len(SelectSeq(log, LAMBDA e : e[1] = "ret"))

\* one next() call on the reader of kind k
IterNext(k) ==
    /\ kind = k
    /\ Calls < MaxCalls
    /\ \E resp \in Responses(k, store, it.next_start), zeroed \in BOOLEAN :
         LET f == find_next_entry(k, it, resp, zeroed)
         IN  /\ it' = f.it
             /\ log' = log \o f.ev \o << <<"ret", NextItem(k, f)>> >>
             /\ served' = IF f.read /\ resp.res = "ok"
                          THEN served \o [i \in 1..Len(resp.recs) |-> EntryOf(k, resp.recs[i])]
                          ELSE served
             /\ tiled' = (tiled /\ (f.read => resp.good))
    /\ UNCHANGED <<kind, store>>
    /\ UNCHANGED pathVars
    /\ UNCHANGED mgmtVars
    /\ UNCHANGED unitVars

\* Iterator for UsnJournalIter
UsnJournalIterNext == IterNext("journal")

\* Iterator for MftIter
MftIterNext == IterNext("mft")

\* the volume gains a record: a change is journalled / a file is created
VolumeAppend ==
    /\ Len(store) < MaxRecords
    /\ LET n == Len(store)
             nm == Names[(n % Len(Names)) + 1]
             r == [usn |-> IF kind = "journal"
                           THEN (IF n = 0 THEN 0 ELSE KeyAfter("journal", store[n]))
                           ELSE 8 * (MaxRecords - n),
                   fid |-> n + 1, parent |-> 5, reason |-> 256,
                   attrs |-> IF n % 2 = 0 THEN 16 ELSE 2, name |-> nm]
       IN  store' = Append(store, r)
    /\ UNCHANGED <<kind, it, log, served, tiled>>
    /\ UNCHANGED pathVars
    /\ UNCHANGED mgmtVars
    /\ UNCHANGED unitVars

\* UsnJournal::iter / Mft::iter: the reader as constructed
NewIter == [buffer |-> Zeros(BufferSize), bytes_read |-> 0, offset |-> 0, next_start |-> 0]

----------------------------------------------------------------------------
(* Path resolver *)

LRU_CACHE_CAPACITY == 4 * 1024

Fids == {1, 2}                           \* file ids of the entries resolved
ParentFids == {1, 2, 3}                  \* file ids of their parents
FileNames == {"a", "b"}                  \* names entries carry
VolumeRoot == <<"C:\\">>                 \* drive letter, upper case, ":\"
\* what file_id_to_path can return for an id: no path, or the id's current path
LookupOutcomes == {<<"Err">>, <<"Ok", VolumeRoot>>, <<"Ok", VolumeRoot \o <<"a">> >>}

\* PathBuf::join, on the components of the path: a plain name is a further
\* component, "." and the empty name are none
JoinPath(p, name) == IF name \in {"", "."} THEN p ELSE Append(p, name)

\* Path::file_name().map_or_else(OsString::new, ..): the final component, or the
\* empty name when the path is a root
FileNameOf(p) == IF Len(p) > 1 THEN p[Len(p)] ELSE ""

(* lru::LruCache: entries from most to least recently used *)

LruNew(capacity) == [some |-> TRUE, cap |-> capacity, entries |-> <<>>]

LruHas(es, k) == \E i \in 1..Len(es) : es[i].fid = k

\* LruCache::peek
LruPeek(es, k) == es[CHOOSE i \in 1..Len(es) : es[i].fid = k]

LruWithout(es, k) == SelectSeq(es, LAMBDA e : e.fid # k)

\* variant: a lookup does not count as a use
LruGetNoTouch(es, k) == es

\* LruCache::get: the entry found becomes the most recently used
LruGet(es, k) == IF LruHas(es, k) THEN <<LruPeek(es, k)>> \o LruWithout(es, k) ELSE es

\* variant: popping a key empties the cache
LruPopAll(es, k) == <<>>

\* LruCache::pop
LruPop(es, k) == LruWithout(es, k)

\* variant: a full cache drops its most recently used entry
LruPutDropNewest(es, capacity, k, path, name) ==
    LET e == [fid |-> k, path |-> path, name |-> name]
    IN  IF LruHas(es, k) THEN <<e>> \o LruWithout(es, k)
        ELSE IF Len(es) >= capacity THEN <<e>> \o SubSeq(es, 2, Len(es))
        ELSE <<e>> \o es

\* LruCache::put: replaces the key's value, or inserts after dropping the least
\* recently used entry of a full cache; the key becomes the most recently used
LruPut(es, capacity, k, path, name) ==
    LET e == [fid |-> k, path |-> path, name |-> name]
    IN  IF LruHas(es, k) THEN <<e>> \o LruWithout(es, k)
        ELSE IF Len(es) >= capacity THEN <<e>> \o SubSeq(es, 1, Len(es) - 1)
        ELSE <<e>> \o es

\* variant: the comparison is inverted
NamesDiffer(cached, name) == cached # name

\* cached_file_name == file_name
NamesMatch(cached, name) == cached = name

\* variant: an entry stored under another name is left in the cache
CheckCachedKeepStale(es, fid, file_name) ==
    IF LruHas(es, fid) /\ LruPeek(es, fid).name = file_name
    THEN [hit |-> TRUE, path |-> LruPeek(es, fid).path, entries |-> LruGet(es, fid)]
    ELSE [hit |-> FALSE, path |-> <<>>, entries |-> LruGet(es, fid)]

\* variant: the cache is not asked for the entry's id
CheckCachedSkipped(es, fid, file_name) ==
    [hit |-> FALSE, path |-> <<>>, entries |-> es]

\* step 1: the cache is asked for fid.  A hit when the stored name is the entry's;
\* an entry stored under another name is removed.
CheckCached(es, fid, file_name) ==
    IF LruHas(es, fid)
    THEN IF NamesMatch(LruPeek(es, fid).name, file_name)
         THEN [hit |-> TRUE, path |-> LruPeek(es, fid).path, entries |-> LruGet(es, fid)]
         ELSE [hit |-> FALSE, path |-> <<>>, entries |-> LruPop(LruGet(es, fid), fid)]
    ELSE [hit |-> FALSE, path |-> <<>>, entries |-> LruGet(es, fid)]

\* variant: the parent is always resolved from the volume
ParentDirPathAlwaysLookup(ofParent, es, capacity, parent_fid) ==
    IF ofParent[1] = "Ok"
    THEN [ok |-> TRUE, path |-> ofParent[2],
          entries |-> LruPut(es, capacity, parent_fid, ofParent[2], FileNameOf(ofParent[2])),
          lookups |-> << <<parent_fid, ofParent>> >>]
    ELSE [ok |-> FALSE, path |-> <<>>, entries |-> es,
          lookups |-> << <<parent_fid, ofParent>> >>]

\* variant: a parent that cannot be looked up is taken to be the volume root
ParentDirPathRootOnError(ofParent, es, capacity, parent_fid) ==
    IF LruHas(es, parent_fid)
    THEN [ok |-> TRUE, path |-> LruPeek(es, parent_fid).path,
          entries |-> LruGet(es, parent_fid), lookups |-> <<>>]
    ELSE IF ofParent[1] = "Ok"
    THEN [ok |-> TRUE, path |-> ofParent[2],
          entries |-> LruPut(es, capacity, parent_fid, ofParent[2], FileNameOf(ofParent[2])),
          lookups |-> << <<parent_fid, ofParent>> >>]
    ELSE [ok |-> TRUE, path |-> VolumeRoot, entries |-> es,
          lookups |-> << <<parent_fid, ofParent>> >>]

\* variant: a parent looked up on the volume is not cached
ParentDirPathNotCached(ofParent, es, capacity, parent_fid) ==
    IF LruHas(es, parent_fid)
    THEN [ok |-> TRUE, path |-> LruPeek(es, parent_fid).path,
          entries |-> LruGet(es, parent_fid), lookups |-> <<>>]
    ELSE IF ofParent[1] = "Ok"
    THEN [ok |-> TRUE, path |-> ofParent[2], entries |-> es,
          lookups |-> << <<parent_fid, ofParent>> >>]
    ELSE [ok |-> FALSE, path |-> <<>>, entries |-> es,
          lookups |-> << <<parent_fid, ofParent>> >>]

\* step 2: the parent directory's path, from the cache or else from the volume
\* (ofParent is what file_id_to_path returns for parent_fid), in which case it is
\* cached under the parent's id with its own final component
ParentDirPath(ofParent, es, capacity, parent_fid) ==
    IF LruHas(es, parent_fid)
    THEN [ok |-> TRUE, path |-> LruPeek(es, parent_fid).path,
          entries |-> LruGet(es, parent_fid), lookups |-> <<>>]
    ELSE IF ofParent[1] = "Ok"
    THEN [ok |-> TRUE, path |-> ofParent[2],
          entries |-> LruPut(es, capacity, parent_fid, ofParent[2], FileNameOf(ofParent[2])),
          lookups |-> << <<parent_fid, ofParent>> >>]
    ELSE [ok |-> FALSE, path |-> <<>>, entries |-> es,
          lookups |-> << <<parent_fid, ofParent>> >>]

\* variant: every resolved entry is cached under its own id
CacheAlways(es, capacity, fid, current_path, file_name, is_dir) ==
    LruPut(es, capacity, fid, current_path, file_name)

\* variant: no resolved entry is cached under its own id
CacheNever(es, capacity, fid, current_path, file_name, is_dir) == es

\* variant: a directory is cached with the path of its parent
CacheIfDirParentPath(es, capacity, fid, current_path, file_name, is_dir) ==
    IF is_dir
    THEN LruPut(es, capacity, fid, SubSeq(current_path, 1, Len(current_path) - 1),
                file_name)
    ELSE es

\* steps 3 and 4: the entry's path; a directory is cached under its own id
CacheIfDir(es, capacity, fid, current_path, file_name, is_dir) ==
    IF is_dir THEN LruPut(es, capacity, fid, current_path, file_name) ELSE es

\* resolve_path_with_cache.  ofParent is what file_id_to_path returns for
\* parent_fid.  Gives the result, the cache entries afterwards and the system
\* lookups made.
resolve_path_with_cache(ofParent, fid, parent_fid, file_name, is_dir, es, capacity) ==
    LET s1 == CheckCached(es, fid, file_name)
        s2 == ParentDirPath(ofParent, s1.entries, capacity, parent_fid)
        current_path == JoinPath(s2.path, file_name)
    IN  IF s1.hit
        THEN [result |-> <<"Some", s1.path>>, entries |-> s1.entries, lookups |-> <<>>]
        ELSE IF s2.ok
        THEN [result |-> <<"Some", current_path>>,
              entries |-> CacheIfDir(s2.entries, capacity, fid, current_path, file_name, is_dir),
              lookups |-> s2.lookups]
        ELSE [result |-> <<"None">>, entries |-> s2.entries, lookups |-> s2.lookups]

\* variant: the parent's path is returned without the entry's name
resolve_pathNoJoin(ofParent, ofFid, fid, parent_fid, file_name) ==
    IF ofParent[1] = "Ok"
    THEN [result |-> <<"Some", ofParent[2]>>,
          lookups |-> << <<parent_fid, ofParent>> >>]
    ELSE IF ofFid[1] = "Ok"
    THEN [result |-> <<"Some", ofFid[2]>>,
          lookups |-> << <<parent_fid, ofParent>>, <<fid, ofFid>> >>]
    ELSE [result |-> <<"None">>,
          lookups |-> << <<parent_fid, ofParent>>, <<fid, ofFid>> >>]

\* resolve_path (no cache): the parent's path joined with the name, else the path
\* of the id itself.  ofParent and ofFid are what file_id_to_path returns for
\* parent_fid and for fid.
resolve_path(ofParent, ofFid, fid, parent_fid, file_name) ==
    IF ofParent[1] = "Ok"
    THEN [result |-> <<"Some", JoinPath(ofParent[2], file_name)>>,
          lookups |-> << <<parent_fid, ofParent>> >>]
    ELSE IF ofFid[1] = "Ok"
    THEN [result |-> <<"Some", ofFid[2]>>,
          lookups |-> << <<parent_fid, ofParent>>, <<fid, ofFid>> >>]
    ELSE [result |-> <<"None">>,
          lookups |-> << <<parent_fid, ofParent>>, <<fid, ofFid>> >>]

\* PathResolver::new
PathResolverNew == [some |-> FALSE, cap |-> 0, entries |-> <<>>]

\* PathResolver::new_with_cache
PathResolverNewWithCache == LruNew(LRU_CACHE_CAPACITY)

\* PathResolver::resolve_path on one entry; ofParent and ofFid are what the volume
\* answers to an id-to-path lookup of the parent's id and of the entry's own id at
\* the time of the call (one id, one answer; the cached resolver never looks up the
\* entry's own id)
ResolvePath ==
    \E fid \in Fids, parent_fid \in ParentFids, file_name \in FileNames, is_dir \in BOOLEAN,
       ofParent \in LookupOutcomes :
    \E ofFid \in IF resolver.some THEN {<<"Err">>}
                 ELSE IF fid = parent_fid THEN {ofParent} ELSE LookupOutcomes :
        LET r == IF resolver.some
                 THEN resolve_path_with_cache(ofParent, fid, parent_fid, file_name, is_dir,
                                              resolver.entries, resolver.cap)
                 ELSE resolve_path(ofParent, ofFid, fid, parent_fid, file_name)
                      @@ [entries |-> <<>>]
        IN  /\ r.result[1] = "Some" => Len(r.result[2]) <= MaxPathLen
            /\ resolver' = [resolver EXCEPT !.entries = r.entries]
            /\ last' = [called |-> TRUE, fid |-> fid, parent_fid |-> parent_fid,
                        file_name |-> file_name, is_dir |-> is_dir,
                        result |-> r.result, lookups |-> r.lookups,
                        before |-> resolver.entries]
            /\ UNCHANGED iterVars
            /\ UNCHANGED mgmtVars
            /\ UNCHANGED unitVars

\* the names the records of a volume carry besides those of files: the root
\* directory is recorded as ".", and a record may carry no name at all
NamesOnVolume == {"a", ".", ""}

\* what file_id_to_path returns for the ids of one volume: 1 is its root directory,
\* 2 the directory a, 3 an id that is no longer in use
PathOnVolume(id) ==
    CASE id = 1 -> <<"Ok", VolumeRoot>>
      [] id = 2 -> <<"Ok", VolumeRoot \o <<"a">> >>
      [] OTHER -> <<"Err">>

\* PathResolver::resolve_path on an entry of the volume, by a resolver with a cache
ResolveEntryOfVolume ==
    /\ resolver.some
    /\ \E fid \in Fids, parent_fid \in ParentFids, file_name \in NamesOnVolume,
          is_dir \in BOOLEAN :
        LET r == resolve_path_with_cache(PathOnVolume(parent_fid), fid, parent_fid,
                                         file_name, is_dir,
                                         resolver.entries, resolver.cap)
        IN  /\ r.result[1] = "Some" => Len(r.result[2]) <= MaxPathLen
            /\ resolver' = [resolver EXCEPT !.entries = r.entries]
            /\ last' = [called |-> TRUE, fid |-> fid, parent_fid |-> parent_fid,
                        file_name |-> file_name, is_dir |-> is_dir,
                        result |-> r.result, lookups |-> r.lookups,
                        before |-> resolver.entries]
            /\ UNCHANGED iterVars
            /\ UNCHANGED mgmtVars
            /\ UNCHANGED unitVars

NoCall == [called |-> FALSE]

----------------------------------------------------------------------------
(* The change journal and its readers' construction *)

DEFAULT_BUFFER_SIZE == 64 * 1024
DEFAULT_JOURNAL_MAX_SIZE == 32 * 1024 * 1024
DEFAULT_JOURNAL_ALLOCATION_DELTA == 8 * 1024 * 1024
\* 0xFFFFFFFF, as the four bytes of the u32
USN_REASON_MASK_ALL == <<255, 255, 255, 255>>

ERROR_JOURNAL_NOT_ACTIVE == "ERROR_JOURNAL_NOT_ACTIVE"
ERROR_ACCESS_DENIED == "ERROR_ACCESS_DENIED"
USN_DELETE_FLAG_DELETE == "USN_DELETE_FLAG_DELETE"
USN_DELETE_FLAG_NOTIFY == "USN_DELETE_FLAG_NOTIFY"

\* bool as u32 / bool as u64
BoolAsInt(b) == IF b THEN 1 ELSE 0

\* err.into(): UsnError::WinApiError carrying the system's error
WinApiError(code) == <<"Err", "WinApiError", code>>

\* variant: the default options ask for close records only
EnumOptionsOnlyOnClose ==
    [start_usn |-> 0, reason_mask |-> USN_REASON_MASK_ALL, only_on_close |-> TRUE,
     timeout |-> 0, wait_for_more |-> FALSE, buffer_size |-> DEFAULT_BUFFER_SIZE]

\* EnumOptions::default()
EnumOptionsDefault ==
    [start_usn |-> 0, reason_mask |-> USN_REASON_MASK_ALL, only_on_close |-> FALSE,
     timeout |-> 0, wait_for_more |-> FALSE, buffer_size |-> DEFAULT_BUFFER_SIZE]

\* the options callers pass: the default ones, and ones that differ in every field
OptionsTried ==
    {EnumOptionsDefault,
     [start_usn |-> 72, reason_mask |-> <<0, 1, 0, 0>>, only_on_close |-> TRUE,
      timeout |-> 5, wait_for_more |-> TRUE, buffer_size |-> 4 * 1024]}

\* the sizes callers pass to create_or_update
SizesTried ==
    {<<DEFAULT_JOURNAL_MAX_SIZE, DEFAULT_JOURNAL_ALLOCATION_DELTA>>, <<1024 * 1024, 64 * 1024>>}

\* UsnJournalData from USN_JOURNAL_DATA_V0 (the fields the model follows)
JournalData(j) ==
    [journal_id |-> j.id, maximum_size |-> j.max_size, allocation_delta |-> j.delta]

\* query_core: FSCTL_QUERY_USN_JOURNAL on journal j; fail is the system refusing
query_core(j, fail) ==
    LET out == IF fail THEN <<"Err", ERROR_ACCESS_DENIED>>
               ELSE IF j.active THEN <<"Ok", JournalData(j)>>
               ELSE <<"Err", ERROR_JOURNAL_NOT_ACTIVE>>
    IN  [code |-> "FSCTL_QUERY_USN_JOURNAL", input |-> <<>>, outcome |-> out]

\* create_or_update: FSCTL_CREATE_USN_JOURNAL creates the journal, under a new id,
\* or resizes the active one
create_or_update(j, max_size, allocation_delta, fail) ==
    LET data == [MaximumSize |-> max_size, AllocationDelta |-> allocation_delta]
    IN  IF fail
        THEN [result |-> WinApiError(ERROR_ACCESS_DENIED), journal |-> j,
              ioctls |-> << [code |-> "FSCTL_CREATE_USN_JOURNAL", input |-> data,
                             outcome |-> <<"Err", ERROR_ACCESS_DENIED>>] >>]
        ELSE [result |-> <<"Ok">>,
              journal |-> [active |-> TRUE, id |-> IF j.active THEN j.id ELSE j.id + 1,
                           max_size |-> max_size, delta |-> allocation_delta],
              ioctls |-> << [code |-> "FSCTL_CREATE_USN_JOURNAL", input |-> data,
                             outcome |-> <<"Ok">>] >>]

\* variant: the journal is created after any failed query
queryCreateOnAnyError(j, create_if_not_active, f1, f2, f3) ==
    LET q1 == query_core(j, f1)
        c == create_or_update(j, DEFAULT_JOURNAL_MAX_SIZE, DEFAULT_JOURNAL_ALLOCATION_DELTA, f2)
        q2 == query_core(c.journal, f3)
    IN  IF q1.outcome[1] = "Ok"
        THEN [result |-> q1.outcome, journal |-> j, ioctls |-> <<q1>>]
        ELSE IF create_if_not_active
        THEN IF c.result[1] = "Err"
             THEN [result |-> c.result, journal |-> c.journal, ioctls |-> <<q1>> \o c.ioctls]
             ELSE [result |-> IF q2.outcome[1] = "Ok" THEN q2.outcome
                              ELSE WinApiError(q2.outcome[2]),
                   journal |-> c.journal, ioctls |-> <<q1>> \o c.ioctls \o <<q2>>]
        ELSE [result |-> WinApiError(q1.outcome[2]), journal |-> j, ioctls |-> <<q1>>]

\* variant: a created journal is not queried again; the data of the first state
\* of the journal are returned
queryNoRequery(j, create_if_not_active, f1, f2, f3) ==
    LET q1 == query_core(j, f1)
        c == create_or_update(j, DEFAULT_JOURNAL_MAX_SIZE, DEFAULT_JOURNAL_ALLOCATION_DELTA, f2)
    IN  IF q1.outcome[1] = "Ok"
        THEN [result |-> q1.outcome, journal |-> j, ioctls |-> <<q1>>]
        ELSE IF q1.outcome[2] = ERROR_JOURNAL_NOT_ACTIVE /\ create_if_not_active
        THEN IF c.result[1] = "Err"
             THEN [result |-> c.result, journal |-> c.journal, ioctls |-> <<q1>> \o c.ioctls]
             ELSE [result |-> <<"Ok", JournalData(j)>>,
                   journal |-> c.journal, ioctls |-> <<q1>> \o c.ioctls]
        ELSE [result |-> WinApiError(q1.outcome[2]), journal |-> j, ioctls |-> <<q1>>]

\* query: f1, f2, f3 are the system refusing the query, the create and the second
\* query.  Gives the result, the journal afterwards and the requests issued.
query(j, create_if_not_active, f1, f2, f3) ==
    LET q1 == query_core(j, f1)
        c == create_or_update(j, DEFAULT_JOURNAL_MAX_SIZE, DEFAULT_JOURNAL_ALLOCATION_DELTA, f2)
        q2 == query_core(c.journal, f3)
    IN  IF q1.outcome[1] = "Ok"
        THEN [result |-> q1.outcome, journal |-> j, ioctls |-> <<q1>>]
        ELSE IF q1.outcome[2] = ERROR_JOURNAL_NOT_ACTIVE /\ create_if_not_active
        THEN IF c.result[1] = "Err"
             THEN [result |-> c.result, journal |-> c.journal, ioctls |-> <<q1>> \o c.ioctls]
             ELSE [result |-> IF q2.outcome[1] = "Ok" THEN q2.outcome
                              ELSE WinApiError(q2.outcome[2]),
                   journal |-> c.journal, ioctls |-> <<q1>> \o c.ioctls \o <<q2>>]
        ELSE [result |-> WinApiError(q1.outcome[2]), journal |-> j, ioctls |-> <<q1>>]

\* FSCTL_DELETE_USN_JOURNAL with the id and flags given
DeleteIoctl(j, id, flags, fail) ==
    LET data == [UsnJournalID |-> id, DeleteFlags |-> flags]
        okay == ~fail /\ j.active /\ j.id = id
    IN  [result |-> IF okay THEN <<"Ok">> ELSE WinApiError(ERROR_ACCESS_DENIED),
         journal |-> IF okay THEN [j EXCEPT !.active = FALSE] ELSE j,
         ioctls |-> << [code |-> "FSCTL_DELETE_USN_JOURNAL", input |-> data,
                        outcome |-> IF okay THEN <<"Ok">>
                                    ELSE <<"Err", ERROR_ACCESS_DENIED>>] >>]

\* variant: the journal is queried as the readers query it, creating it
deleteCreating(j, f1, f2, f3, fd) ==
    LET q == query(j, TRUE, f1, f2, f3)
        d == DeleteIoctl(q.journal, q.result[2].journal_id,
                         {USN_DELETE_FLAG_DELETE, USN_DELETE_FLAG_NOTIFY}, fd)
    IN  IF q.result[1] = "Err" THEN q
        ELSE [result |-> d.result, journal |-> d.journal, ioctls |-> q.ioctls \o d.ioctls]

\* delete: query(false), then the delete request; fd is the system refusing it
delete(j, f1, f2, f3, fd) ==
    LET q == query(j, FALSE, f1, f2, f3)
        d == DeleteIoctl(q.journal, q.result[2].journal_id,
                         {USN_DELETE_FLAG_DELETE, USN_DELETE_FLAG_NOTIFY}, fd)
    IN  IF q.result[1] = "Err" THEN q
        ELSE [result |-> d.result, journal |-> d.journal, ioctls |-> q.ioctls \o d.ioctls]

\* no reader built yet
NoReader == [built |-> FALSE]

\* variant: the reader is built from the default options
iterFromDefaultOptions(journal_data) ==
    [built |-> TRUE, journal_id |-> journal_data.journal_id,
     buffer_len |-> EnumOptionsDefault.buffer_size,
     next_start_usn |-> EnumOptionsDefault.start_usn,
     reason_mask |-> EnumOptionsDefault.reason_mask,
     return_only_on_close |-> BoolAsInt(EnumOptionsDefault.only_on_close),
     timeout |-> EnumOptionsDefault.timeout,
     bytes_to_wait_for |-> BoolAsInt(EnumOptionsDefault.wait_for_more)]

\* iter: the UsnJournalIter built once query(true) has returned journal_data
iter(journal_data) ==
    [built |-> TRUE, journal_id |-> journal_data.journal_id,
     buffer_len |-> DEFAULT_BUFFER_SIZE,
     next_start_usn |-> 0,
     reason_mask |-> USN_REASON_MASK_ALL,
     return_only_on_close |-> 0,
     timeout |-> 0,
     bytes_to_wait_for |-> 1]

\* variant: the reader never waits for more data
iter_with_optionsNoWait(journal_data, options) ==
    [built |-> TRUE, journal_id |-> journal_data.journal_id,
     buffer_len |-> options.buffer_size,
     next_start_usn |-> options.start_usn,
     reason_mask |-> options.reason_mask,
     return_only_on_close |-> BoolAsInt(options.only_on_close),
     timeout |-> options.timeout,
     bytes_to_wait_for |-> 0]

\* iter_with_options: the UsnJournalIter built once query(true) has returned journal_data
iter_with_options(journal_data, options) ==
    [built |-> TRUE, journal_id |-> journal_data.journal_id,
     buffer_len |-> options.buffer_size,
     next_start_usn |-> options.start_usn,
     reason_mask |-> options.reason_mask,
     return_only_on_close |-> BoolAsInt(options.only_on_close),
     timeout |-> options.timeout,
     bytes_to_wait_for |-> BoolAsInt(options.wait_for_more)]

\* variant: every read asks for all reasons
read_dataAllReasons(r) ==
    [StartUsn |-> r.next_start_usn, ReasonMask |-> USN_REASON_MASK_ALL,
     ReturnOnlyOnClose |-> r.return_only_on_close, Timeout |-> r.timeout,
     BytesToWaitFor |-> r.bytes_to_wait_for, UsnJournalID |-> r.journal_id]

\* get_data: the READ_USN_JOURNAL_DATA_V0 the reader r passes to the bulk read
read_data(r) ==
    [StartUsn |-> r.next_start_usn, ReasonMask |-> r.reason_mask,
     ReturnOnlyOnClose |-> r.return_only_on_close, Timeout |-> r.timeout,
     BytesToWaitFor |-> r.bytes_to_wait_for, UsnJournalID |-> r.journal_id]

\* the system refuses to create a journal beyond the model's bound
CreateAllowed(fail) == (~journal.active /\ journal.id >= MaxJournals) => fail

NoOp == [name |-> "none"]
NotMade == [by |-> "none"]

\* UsnJournal::query
Query ==
    \E flag \in BOOLEAN, f1 \in BOOLEAN, f2 \in BOOLEAN, f3 \in BOOLEAN :
        LET q == query(journal, flag, f1, f2, f3)
        IN  /\ CreateAllowed(f2)
            /\ journal' = q.journal
            /\ op' = [name |-> "query", arg |-> flag, before |-> journal,
                      ioctls |-> q.ioctls, result |-> q.result]
            /\ UNCHANGED <<reader, made, reads>>
            /\ UNCHANGED iterVars
            /\ UNCHANGED pathVars
            /\ UNCHANGED unitVars

\* UsnJournal::create_or_update
CreateOrUpdate ==
    \E sizes \in SizesTried, fail \in BOOLEAN :
        LET c == create_or_update(journal, sizes[1], sizes[2], fail)
        IN  /\ CreateAllowed(fail)
            /\ journal' = c.journal
            /\ op' = [name |-> "create_or_update", arg |-> sizes, before |-> journal,
                      ioctls |-> c.ioctls, result |-> c.result]
            /\ UNCHANGED <<reader, made, reads>>
            /\ UNCHANGED iterVars
            /\ UNCHANGED pathVars
            /\ UNCHANGED unitVars

\* UsnJournal::delete
Delete ==
    \E f1 \in BOOLEAN, fd \in BOOLEAN :
        LET d == delete(journal, f1, FALSE, FALSE, fd)
        IN  /\ journal' = d.journal
            /\ op' = [name |-> "delete", arg |-> <<>>, before |-> journal,
                      ioctls |-> d.ioctls, result |-> d.result]
            /\ UNCHANGED <<reader, made, reads>>
            /\ UNCHANGED iterVars
            /\ UNCHANGED pathVars
            /\ UNCHANGED unitVars

\* UsnJournal::iter: query(true)?, then the reader
Iter ==
    \E f1 \in BOOLEAN, f2 \in BOOLEAN, f3 \in BOOLEAN :
        LET q == query(journal, TRUE, f1, f2, f3)
            built == q.result[1] = "Ok"
        IN  /\ CreateAllowed(f2)
            /\ journal' = q.journal
            /\ op' = [name |-> "iter", arg |-> <<>>, before |-> journal, ioctls |-> q.ioctls,
                      result |-> IF built THEN <<"Ok">> ELSE q.result]
            /\ reader' = IF built THEN iter(q.result[2]) ELSE reader
            /\ made' = IF built
                       THEN [by |-> "iter", options |-> <<>>, queried |-> q.result[2]]
                       ELSE made
            /\ reads' = IF built THEN <<>> ELSE reads
            /\ UNCHANGED iterVars
            /\ UNCHANGED pathVars
            /\ UNCHANGED unitVars

\* UsnJournal::iter_with_options: query(true)?, then the reader
IterWithOptions ==
    \E options \in OptionsTried, f1 \in BOOLEAN, f2 \in BOOLEAN, f3 \in BOOLEAN :
        LET q == query(journal, TRUE, f1, f2, f3)
            built == q.result[1] = "Ok"
        IN  /\ CreateAllowed(f2)
            /\ journal' = q.journal
            /\ op' = [name |-> "iter_with_options", arg |-> options, before |-> journal,
                      ioctls |-> q.ioctls, result |-> IF built THEN <<"Ok">> ELSE q.result]
            /\ reader' = IF built THEN iter_with_options(q.result[2], options) ELSE reader
            /\ made' = IF built
                       THEN [by |-> "iter_with_options", options |-> options,
                             queried |-> q.result[2]]
                       ELSE made
            /\ reads' = IF built THEN <<>> ELSE reads
            /\ UNCHANGED iterVars
            /\ UNCHANGED pathVars
            /\ UNCHANGED unitVars

\* next() on an exhausted buffer: find_next_entry issues the bulk read with read_data
\* and, when it succeeds, takes the cursor the result starts with (the start cursor
\* moved on by the records read, or unmoved when the result holds no record); next()
\* returns the first record, None when there is none or at the end of the data,
\* and any other failure as an item
UsnJournalIterRefill ==
    /\ made.by \in {"iter", "iter_with_options"}
    /\ Len(reads) < MaxReads
    /\ \E outcome \in {"ok", ERROR_HANDLE_EOF} \cup OtherErrors, moved \in {0, 72} :
        /\ reads' = Append(reads, read_data(reader))
        /\ reader' = IF outcome = "ok"
                     THEN [reader EXCEPT !.next_start_usn = @ + moved]
                     ELSE reader
        /\ op' = [name |-> "next", arg |-> <<>>, before |-> journal,
                  ioctls |-> << [code |-> "FSCTL_READ_USN_JOURNAL",
                                 input |-> read_data(reader),
                                 outcome |-> IF outcome = "ok" THEN <<"Ok", moved>>
                                             ELSE <<"Err", outcome>>] >>,
                  result |-> IF outcome = "ok"
                             THEN IF moved = 0 THEN <<"None">> ELSE <<"Some", <<"Ok">> >>
                             ELSE IF IsEof(outcome) THEN <<"None">>
                             ELSE <<"Some", WinApiError(outcome)>>]
    /\ UNCHANGED <<journal, made>>
    /\ UNCHANGED iterVars
    /\ UNCHANGED pathVars
    /\ UNCHANGED unitVars

\* i64::MAX, as the 8 little-endian bytes of an i64
I64_MAX == <<255, 255, 255, 255, 255, 255, 255, 127>>

\* mft::EnumOptions::default(); low_usn and high_usn are the 8 bytes of an i64
MftEnumOptionsDefault ==
    [low_usn |-> LE(0, 8), high_usn |-> I64_MAX, buffer_size |-> DEFAULT_BUFFER_SIZE]

\* the options the model passes to Mft::iter_with_options: the default, a range of
\* its own, and a negative lower bound
MftOptionsTried ==
    {MftEnumOptionsDefault,
     [low_usn |-> LE(72, 8), high_usn |-> LE(4096, 8), buffer_size |-> 4 * 1024],
     [low_usn |-> LE(0 - 1, 8), high_usn |-> I64_MAX, buffer_size |-> DEFAULT_BUFFER_SIZE]}

\* Mft::iter: the MftIter over the whole table
mft_iter ==
    [built |-> TRUE, buffer_len |-> DEFAULT_BUFFER_SIZE,
     low_usn |-> LE(0, 8), high_usn |-> I64_MAX, next_start_fid |-> LE(0, 8)]

\* variant: the scan starts at file id 0 whatever the options say
mft_iter_with_optionsFromZero(options) ==
    [built |-> TRUE, buffer_len |-> options.buffer_size,
     low_usn |-> options.low_usn, high_usn |-> options.high_usn,
     next_start_fid |-> LE(0, 8)]

\* Mft::iter_with_options: the MftIter; `options.low_usn as u64` keeps the 8 bytes of
\* the i64 and reads them as unsigned
mft_iter_with_options(options) ==
    [built |-> TRUE, buffer_len |-> options.buffer_size,
     low_usn |-> options.low_usn, high_usn |-> options.high_usn,
     next_start_fid |-> options.low_usn]

\* MftIter::get_data: the MFT_ENUM_DATA_V0 the reader r passes to the bulk read
mft_enum_data(r) ==
    [StartFileReferenceNumber |-> r.next_start_fid, LowUsn |-> r.low_usn,
     HighUsn |-> r.high_usn]

\* the file ids a bulk read of the table leaves as the next cursor
MftCursors == {LE(5, 8), LE(9, 8)}

\* Mft::iter
MftIter ==
    /\ reader' = mft_iter
    /\ made' = [by |-> "Mft::iter", options |-> <<>>]
    /\ reads' = <<>>
    /\ op' = [name |-> "Mft::iter", arg |-> <<>>, before |-> journal, ioctls |-> <<>>,
              result |-> <<"Ok">>]
    /\ UNCHANGED journal
    /\ UNCHANGED iterVars
    /\ UNCHANGED pathVars
    /\ UNCHANGED unitVars

\* Mft::iter_with_options
MftIterWithOptions ==
    \E options \in MftOptionsTried :
        /\ reader' = mft_iter_with_options(options)
        /\ made' = [by |-> "Mft::iter_with_options", options |-> options]
        /\ reads' = <<>>
        /\ op' = [name |-> "Mft::iter_with_options", arg |-> options, before |-> journal,
                  ioctls |-> <<>>, result |-> <<"Ok">>]
        /\ UNCHANGED journal
        /\ UNCHANGED iterVars
        /\ UNCHANGED pathVars
        /\ UNCHANGED unitVars

\* next() on an exhausted buffer of the built MftIter: find_next_entry issues the
\* bulk read with mft_enum_data and, when it succeeds, takes the cursor the result
\* starts with and returns the first record
MftIterRefill ==
    /\ made.by \in {"Mft::iter", "Mft::iter_with_options"}
    /\ Len(reads) < MaxReads
    /\ \E outcome \in {"ok", ERROR_HANDLE_EOF} \cup OtherErrors, cursor \in MftCursors :
        /\ reads' = Append(reads, mft_enum_data(reader))
        /\ reader' = IF outcome = "ok"
                     THEN [reader EXCEPT !.next_start_fid = cursor]
                     ELSE reader
        /\ op' = [name |-> "MftIter::next", arg |-> <<>>, before |-> journal,
                  ioctls |-> << [code |-> "FSCTL_ENUM_USN_DATA",
                                 input |-> mft_enum_data(reader),
                                 outcome |-> IF outcome = "ok" THEN <<"Ok", cursor>>
                                             ELSE <<"Err", outcome>>] >>,
                  result |-> IF outcome = "ok" THEN <<"Some", <<"Ok">> >>
                             ELSE IF IsEof(outcome) THEN <<"None">>
                             ELSE <<"Some", WinApiError(outcome)>>]
    /\ UNCHANGED <<journal, made>>
    /\ UNCHANGED iterVars
    /\ UNCHANGED pathVars
    /\ UNCHANGED unitVars

----------------------------------------------------------------------------
(* Functions applied on their own *)

\* the values the model gives a record's fields
UsnsTried == {0 - 1, 0, 8192}
FidsTried == {1, 1193046}
ReasonsTried == {0, 256}
\* file names, as code points: empty, ASCII, Chinese, and one beyond the basic plane
NamesTried == {<<>>, <<97>>, <<97, 98, 99>>, <<27979, 35797, 46>>, <<128512>>}
AttributeBits == {FILE_ATTRIBUTE_HIDDEN, FILE_ATTRIBUTE_DIRECTORY, 32}

RECURSIVE SumOf(_)
SumOf(S) == IF S = {} THEN 0 ELSE LET x == CHOOSE y \in S : TRUE IN x + SumOf(S \ {x})

\* FILETIME values, as the 8 bytes of an i64: 0, 1, 9,999,999, 10,000,000, the Unix
\* epoch (116,444,736,000,000,000), one tick and one millisecond after it,
\* 0x12345678ABCDEF01, i64::MAX, and the negative -1, -10,000,000 and i64::MIN
UnixEpochTicks == <<0, 128, 62, 213, 222, 177, 157, 1>>
MockTimeStamp == <<1, 239, 205, 171, 120, 86, 52, 18>>
TicksTried ==
    {<<0, 0, 0, 0, 0, 0, 0, 0>>, <<1, 0, 0, 0, 0, 0, 0, 0>>,
     <<127, 150, 152, 0, 0, 0, 0, 0>>, <<128, 150, 152, 0, 0, 0, 0, 0>>,
     UnixEpochTicks, <<1, 128, 62, 213, 222, 177, 157, 1>>,
     <<16, 167, 62, 213, 222, 177, 157, 1>>, MockTimeStamp, I64_MAX,
     <<255, 255, 255, 255, 255, 255, 255, 255>>,
     <<128, 105, 103, 255, 255, 255, 255, 255>>, <<0, 0, 0, 0, 0, 0, 0, 128>>}

\* the test builder of journal.rs: the bytes of a USN_RECORD_V2 with the name at the
\* FileName field
create_mock_usn_record(usn, fid, parent_fid, reason, file_name, file_attributes) ==
    LET file_name_utf16 == encode_utf16(file_name)
        file_name_len == Len(file_name_utf16) * 2
        aligned_size == Align8(SizeOfUsnRecordV2 + file_name_len)
        header ==
            LE(aligned_size, 4) \o LE(2, 2) \o LE(0, 2)
            \o LE(fid, 8) \o LE(parent_fid, 8) \o LE(usn, 8) \o MockTimeStamp
            \o LE(reason, 4) \o LE(0, 4) \o LE(0, 4) \o LE(file_attributes, 4)
            \o LE(file_name_len, 2) \o LE(OffFileName, 2)
        filled == header \o NameBytes(file_name_utf16)
    IN  filled \o Zeros(aligned_size - Len(filled))

\* the test builder of mft.rs: the same record, unaligned, with TimeStamp and Reason 0
mft_create_mock_usn_record(usn, file_id, parent_file_id, file_name, file_attributes) ==
    LET file_name_utf16 == encode_utf16(file_name)
        file_name_len == Len(file_name_utf16) * 2
        record_len == OffFileName + file_name_len
    IN  LE(record_len, 4) \o LE(2, 2) \o LE(0, 2)
        \o LE(file_id, 8) \o LE(parent_file_id, 8) \o LE(usn, 8) \o LE(0, 8)
        \o LE(0, 4) \o LE(0, 4) \o LE(0, 4) \o LE(file_attributes, 4)
        \o LE(file_name_len, 2) \o LE(OffFileName, 2)
        \o NameBytes(file_name_utf16)

\* the offsets at which a record may keep its name: right after the fixed header, or
\* further on, as a later record layout may
NameOffsets == {OffFileName, OffFileName + 4}

\* the bytes of a record that keeps its name at name_offset and says so in
\* FileNameOffset, with TimeStamp time
EncodeRecordAt(r, name_offset, time) ==
    LET len == Align8(name_offset + 2 * Len(r.name))
        body ==
            LE(len, 4) \o LE(2, 2) \o LE(0, 2)
            \o LE(r.fid, 8) \o LE(r.parent, 8) \o LE(r.usn, 8) \o time
            \o LE(r.reason, 4) \o LE(0, 4) \o LE(0, 4) \o LE(r.attrs, 4)
            \o LE(2 * Len(r.name), 2) \o LE(name_offset, 2)
            \o Zeros(name_offset - OffFileName)
            \o NameBytes(r.name)
    IN  body \o Zeros(len - Len(body))

\* the mount points of the system, and paths that are none
MountPoints == {"C:\\mnt"}
PathsTried == MountPoints \cup {"C:\\invalid\\mount\\point"}
ERROR_FILE_NOT_FOUND == "ERROR_FILE_NOT_FOUND"
ERROR_NOT_A_REPARSE_POINT == "ERROR_NOT_A_REPARSE_POINT"

\* get_volume_handle_from_mount_point, given what privilege::is_elevated,
\* GetVolumeNameForVolumeMountPointW and CreateFileW return
get_volume_handle_from_mount_point(elevated, volume_name, created) ==
    IF elevated[1] = "Err" THEN WinApiError(elevated[2])
    ELSE IF ~elevated[2] THEN <<"Err", "PermissionError">>
    ELSE IF volume_name[1] = "Err" THEN WinApiError(volume_name[2])
    ELSE IF created[1] = "Err" THEN WinApiError(created[2])
    ELSE <<"Ok", created[2]>>

\* Volume::from_mount_point
from_mount_point(mount_point, elevated, volume_name, created) ==
    LET handle == get_volume_handle_from_mount_point(elevated, volume_name, created)
    IN  IF handle[1] = "Err" THEN handle
        ELSE <<"Ok", [handle |-> handle[2], drive_letter |-> "None",
                      mount_point |-> mount_point]>>

\* UsnEntry::new of a record made by the test builder
UsnEntryNewOfMock ==
    \E usn \in UsnsTried, fid \in FidsTried, reason \in ReasonsTried,
       file_name \in NamesTried, bits \in SUBSET AttributeBits :
        LET bytes == create_mock_usn_record(usn, fid, 5, reason, file_name, SumOf(bits))
        IN  /\ calc' = [fn |-> "UsnEntry::new", of |-> "mock",
                        in |-> [usn |-> usn, fid |-> fid, parent_fid |-> 5,
                                reason |-> reason, file_name |-> file_name,
                                bits |-> bits],
                        bytes |-> bytes, out |-> UsnEntryNew(bytes, 0)]
            /\ UNCHANGED duo
            /\ UNCHANGED iterVars
            /\ UNCHANGED pathVars
            /\ UNCHANGED mgmtVars

\* MftEntry::new of a record made by the test builder
MftEntryNewOfMock ==
    \E usn \in UsnsTried, fid \in FidsTried,
       file_name \in NamesTried, bits \in SUBSET AttributeBits :
        LET bytes == mft_create_mock_usn_record(usn, fid, 5, file_name, SumOf(bits))
        IN  /\ calc' = [fn |-> "MftEntry::new", of |-> "mock",
                        in |-> [usn |-> usn, fid |-> fid, parent_fid |-> 5,
                                file_name |-> file_name, bits |-> bits],
                        bytes |-> bytes, out |-> MftEntryNew(bytes, 0)]
            /\ UNCHANGED duo
            /\ UNCHANGED iterVars
            /\ UNCHANGED pathVars
            /\ UNCHANGED mgmtVars

\* UsnEntry::new / MftEntry::new of a record of the volume
EntryNewOfRecord ==
    \E k \in Kinds, name \in {<<>>, <<97, 98, 99>>}, name_offset \in NameOffsets,
       time \in TicksTried :
        LET r == [usn |-> 72, fid |-> 1, parent |-> 5, reason |-> 256, attrs |-> 32,
                  name |-> name]
            bytes == EncodeRecordAt(r, name_offset, time)
        IN  /\ calc' = [fn |-> IF k = "journal" THEN "UsnEntry::new" ELSE "MftEntry::new",
                        of |-> "volume",
                        in |-> [record |-> r, name_offset |-> name_offset, time |-> time],
                        bytes |-> bytes,
                        out |-> IF k = "journal" THEN UsnEntryNew(bytes, 0)
                                ELSE MftEntryNew(bytes, 0)]
            /\ UNCHANGED duo
            /\ UNCHANGED iterVars
            /\ UNCHANGED pathVars
            /\ UNCHANGED mgmtVars

\* time::filetime_to_systemtime
FiletimeToSystemtime ==
    \E filetime \in TicksTried :
        /\ calc' = [fn |-> "filetime_to_systemtime", in |-> filetime,
                    out |-> filetime_to_systemtime(filetime)]
        /\ UNCHANGED duo
        /\ UNCHANGED iterVars
        /\ UNCHANGED pathVars
        /\ UNCHANGED mgmtVars

\* Volume::from_mount_point
VolumeFromMountPoint ==
    \E mount_point \in PathsTried,
       elevated \in {<<"Ok", TRUE>>, <<"Ok", FALSE>>, <<"Err", ERROR_ACCESS_DENIED>>},
       failure \in {ERROR_FILE_NOT_FOUND, ERROR_NOT_A_REPARSE_POINT},
       created \in {<<"Ok", "handle">>, <<"Err", ERROR_ACCESS_DENIED>>} :
        LET volume_name == IF mount_point \in MountPoints
                           THEN <<"Ok", "\\\\?\\Volume{1}\\">>
                           ELSE <<"Err", failure>>
        IN  /\ calc' = [fn |-> "Volume::from_mount_point",
                        in |-> [mount_point |-> mount_point, elevated |-> elevated,
                                volume_name |-> volume_name, created |-> created],
                        out |-> from_mount_point(mount_point, elevated, volume_name,
                                                 created)]
            /\ UNCHANGED duo
            /\ UNCHANGED iterVars
            /\ UNCHANGED pathVars
            /\ UNCHANGED mgmtVars

\* ---- file_id_to_path: the file handle it opens and the name query ----

MAX_PATH == 260
MaxRetries == 2
ERROR_MORE_DATA == "ERROR_MORE_DATA"

\* size_of::<u32>() + MAX_PATH * size_of::<u16>()
InitLen == 4 + (MAX_PATH * 2)

\* FileNameLength of a name that does not fit the buffer it was asked into
LongerThan(buffer_len) == buffer_len + 16

\* the volumes tried: a lower-case drive letter, a mount point, neither
VolumesTried ==
    {[drive_letter |-> "c", mount_point |-> "None"],
     [drive_letter |-> "None", mount_point |-> "C:\\mnt"],
     [drive_letter |-> "None", mount_point |-> "None"]}

\* format!("{drive_letter}:\\") of the letter in upper case
DriveRoot(drive_letter) ==
    CASE drive_letter \in {"c", "C"} -> "C:\\"
      [] drive_letter \in {"d", "D"} -> "D:\\"

\* the file ids tried: one that fits an i64 and one that does not
FileIdsTried == {LE(5, 8), <<0, 0, 0, 0, 0, 0, 0, 128>>}

\* the final outcomes of the name query tried
QueryEnds == {<<"Ok", <<"a", "b">> >>, <<"Err", ERROR_ACCESS_DENIED>>}

\* the loop of GetFileInformationByHandleEx calls: `more` answers of
\* ERROR_MORE_DATA, each followed by a resize to FileNameLength + 4, then `final`
RECURSIVE NameQueryLoop(_, _, _, _)
NameQueryLoop(more, final, buffer_len, calls) ==
    LET asked == Append(calls, <<"GetFileInformationByHandleEx", "file", buffer_len>>)
    IN  IF more > 0
        THEN NameQueryLoop(more - 1, final, LongerThan(buffer_len) + 4, asked)
        ELSE [outcome |-> final, calls |-> asked]

\* file_id_to_path; `open` is the set of handles opened and not closed at return
file_id_to_path(volume, file_id, opened, more, final, closed) ==
    IF file_id[8] >= 128
    THEN [result |-> <<"Err", "TryFromIntError">>, calls |-> <<>>, open |-> {}]
    ELSE LET open_call == << <<"OpenFileById", file_id>> >>
         IN  IF opened[1] = "Err"
             THEN [result |-> opened, calls |-> open_call, open |-> {}]
             ELSE LET q == NameQueryLoop(more, final, InitLen, open_call)
                  IN  IF q.outcome[1] = "Err"
                      THEN [result |-> q.outcome, calls |-> q.calls, open |-> {"file"}]
                      ELSE LET close_call == Append(q.calls, <<"CloseHandle", "file">>)
                               root == IF volume.drive_letter # "None"
                                       THEN <<DriveRoot(volume.drive_letter)>>
                                       ELSE IF volume.mount_point # "None"
                                       THEN <<volume.mount_point>>
                                       ELSE <<>>
                           IN  IF closed[1] = "Err"
                               THEN [result |-> closed, calls |-> close_call,
                                     open |-> {"file"}]
                               ELSE [result |-> <<"Ok", root \o q.outcome[2]>>,
                                     calls |-> close_call, open |-> {}]

\* file_id_to_path on a volume
FileIdToPath ==
    \E volume \in VolumesTried, file_id \in FileIdsTried,
       opened \in {<<"Ok", "file">>, <<"Err", ERROR_ACCESS_DENIED>>},
       more \in 0..MaxRetries, final \in QueryEnds,
       closed \in {<<"Ok">>, <<"Err", ERROR_ACCESS_DENIED>>} :
        /\ calc' = [fn |-> "file_id_to_path",
                    in |-> [volume |-> volume, file_id |-> file_id, opened |-> opened,
                            more |-> more, final |-> final, closed |-> closed],
                    out |-> file_id_to_path(volume, file_id, opened, more, final,
                                            closed)]
        /\ UNCHANGED duo
        /\ UNCHANGED iterVars
        /\ UNCHANGED pathVars
        /\ UNCHANGED mgmtVars

NoCalc == [fn |-> "none"]

----------------------------------------------------------------------------
(* Two instances over one volume *)

Instances == {1, 2}

\* the journal of the volume the two readers read: two records
PairStore ==
    LET r1 == [usn |-> 0, fid |-> 1, parent |-> 5, reason |-> 256, attrs |-> 16,
               name |-> <<97>>]
    IN  <<r1, [usn |-> KeyAfter("journal", r1), fid |-> 2, parent |-> 5, reason |-> 256,
               attrs |-> 2, name |-> <<97, 98, 99>>]>>

\* what the channel answers a reader of the pair: the records from its cursor on,
\* the end of the data, or a failure
PairResponses(start) ==
    {resp \in Responses("journal", PairStore, start) :
        resp.good /\ resp.code \in {"none", ERROR_HANDLE_EOF, "ERROR_INVALID_HANDLE"}}

\* the answer recorded for a call that issues no bulk read; it is not looked at
NotAsked ==
    [res |-> "err", bytes |-> <<>>, recs |-> <<>>, good |-> TRUE, code |-> ERROR_HANDLE_EOF]

\* two readers built by iter(), or two resolvers built by new_with_cache(), over the
\* same volume; each with the calls made on it and what they returned
PairOf(what) ==
    [used |-> TRUE, what |-> what, by |-> 0,
     inst |-> [i \in Instances |->
                 [own |-> IF what = "readers" THEN NewIter ELSE PathResolverNewWithCache,
                  asked |-> <<>>, got |-> <<>>]]]

NoDuo == [used |-> FALSE]

\* variant: the instances work on the fields of the first
SharedState(d, i) == d.inst[1].own

\* the fields of instance i: the buffer, counters and cursor a reader owns, the cache
\* a resolver owns
OwnState(d, i) == d.inst[i].own

\* next() on reader i of the pair
DuoNext ==
    /\ duo.used /\ duo.what = "readers"
    /\ \E i \in Instances :
        LET itr == OwnState(duo, i)
            reading == ~(itr.offset < itr.bytes_read)
        IN  /\ Len(duo.inst[i].asked) < MaxPairCalls
            /\ \E resp \in IF reading THEN PairResponses(itr.next_start) ELSE {NotAsked} :
               \E zeroed \in IF reading /\ resp.res = "err" THEN BOOLEAN ELSE {FALSE} :
                 LET f == find_next_entry("journal", itr, resp, zeroed)
                 IN  duo' = [duo EXCEPT
                               !.by = i,
                               !.inst[i] =
                                   [own |-> f.it,
                                    asked |-> Append(@.asked,
                                                     [resp |-> resp, zeroed |-> zeroed]),
                                    got |-> Append(@.got, NextItem("journal", f))]]
    /\ UNCHANGED calc
    /\ UNCHANGED iterVars
    /\ UNCHANGED pathVars
    /\ UNCHANGED mgmtVars

\* resolve_path on resolver i of the pair, for a directory under directory 3, which
\* the volume puts at its root
DuoResolve ==
    /\ duo.used /\ duo.what = "resolvers"
    /\ \E i \in Instances, fid \in Fids, file_name \in FileNames :
        LET own == OwnState(duo, i)
            r == resolve_path_with_cache(<<"Ok", VolumeRoot>>, fid, 3, file_name, TRUE,
                                         own.entries, own.cap)
        IN  /\ Len(duo.inst[i].asked) < MaxPairCalls
            /\ duo' = [duo EXCEPT
                          !.by = i,
                          !.inst[i] =
                              [own |-> [own EXCEPT !.entries = r.entries],
                               asked |-> Append(@.asked,
                                                [fid |-> fid, file_name |-> file_name]),
                               got |-> Append(@.got, r.result)]]
    /\ UNCHANGED calc
    /\ UNCHANGED iterVars
    /\ UNCHANGED pathVars
    /\ UNCHANGED mgmtVars

\* no function applied on its own and no pair of instances in use
NoUnitUse ==
    /\ calc = NoCalc
    /\ duo = NoDuo

\* no journal call made and no reader built
NoJournalUse ==
    /\ reader = NoReader
    /\ op = NoOp
    /\ made = NotMade
    /\ reads = <<>>

----------------------------------------------------------------------------
(* Specifications *)

\* the readers, over a volume that gains records
Init ==
    /\ kind \in Kinds
    /\ store = <<>>
    /\ it = NewIter
    /\ log = <<>>
    /\ served = <<>>
    /\ tiled = TRUE
    /\ resolver = PathResolverNew
    /\ last = NoCall
    /\ journal = [active |-> TRUE, id |-> 1, max_size |-> DEFAULT_JOURNAL_MAX_SIZE,
                  delta |-> DEFAULT_JOURNAL_ALLOCATION_DELTA]
    /\ NoJournalUse
    /\ NoUnitUse

Next == UsnJournalIterNext \/ MftIterNext \/ VolumeAppend

Spec == Init /\ [][Next]_vars

\* the path resolver, without a cache or with a cache of the program's capacity or
\* of a capacity the model can fill
InitPath ==
    /\ kind = "journal"
    /\ store = <<>>
    /\ it = NewIter
    /\ log = <<>>
    /\ served = <<>>
    /\ tiled = TRUE
    /\ resolver \in {PathResolverNew, PathResolverNewWithCache, LruNew(SmallCapacity)}
    /\ last = NoCall
    /\ journal = [active |-> TRUE, id |-> 1, max_size |-> DEFAULT_JOURNAL_MAX_SIZE,
                  delta |-> DEFAULT_JOURNAL_ALLOCATION_DELTA]
    /\ NoJournalUse
    /\ NoUnitUse

NextPath == ResolvePath

SpecPath == InitPath /\ [][NextPath]_vars

\* the resolver over the entries of a volume, from an empty cache
InitVolume ==
    /\ kind = "journal"
    /\ store = <<>>
    /\ it = NewIter
    /\ log = <<>>
    /\ served = <<>>
    /\ tiled = TRUE
    /\ resolver \in {PathResolverNewWithCache, LruNew(SmallCapacity)}
    /\ last = NoCall
    /\ journal = [active |-> TRUE, id |-> 1, max_size |-> DEFAULT_JOURNAL_MAX_SIZE,
                  delta |-> DEFAULT_JOURNAL_ALLOCATION_DELTA]
    /\ NoJournalUse
    /\ NoUnitUse

NextVolume == ResolveEntryOfVolume

SpecVolume == InitVolume /\ [][NextVolume]_vars

\* the change journal of a volume, active or not at the start, the calls of
\* UsnJournal on it and the reads of the reader built
InitJournal ==
    /\ kind = "journal"
    /\ store = <<>>
    /\ it = NewIter
    /\ log = <<>>
    /\ served = <<>>
    /\ tiled = TRUE
    /\ resolver = PathResolverNew
    /\ last = NoCall
    /\ journal \in {[active |-> FALSE, id |-> 0, max_size |-> 0, delta |-> 0],
                    [active |-> TRUE, id |-> 1, max_size |-> DEFAULT_JOURNAL_MAX_SIZE,
                     delta |-> DEFAULT_JOURNAL_ALLOCATION_DELTA]}
    /\ NoJournalUse
    /\ NoUnitUse

NextJournal ==
    \/ Query \/ CreateOrUpdate \/ Delete \/ Iter \/ IterWithOptions \/ UsnJournalIterRefill
    \/ MftIter \/ MftIterWithOptions \/ MftIterRefill

SpecJournal == InitJournal /\ [][NextJournal]_vars

\* the record decoders, the timestamp conversion and the opening of a volume, each
\* applied on its own
InitUnit ==
    /\ kind = "journal"
    /\ store = <<>>
    /\ it = NewIter
    /\ log = <<>>
    /\ served = <<>>
    /\ tiled = TRUE
    /\ resolver = PathResolverNew
    /\ last = NoCall
    /\ journal = [active |-> TRUE, id |-> 1, max_size |-> DEFAULT_JOURNAL_MAX_SIZE,
                  delta |-> DEFAULT_JOURNAL_ALLOCATION_DELTA]
    /\ NoJournalUse
    /\ NoUnitUse

NextUnit ==
    \/ UsnEntryNewOfMock \/ MftEntryNewOfMock \/ EntryNewOfRecord
    \/ FiletimeToSystemtime \/ VolumeFromMountPoint
    \/ FileIdToPath

SpecUnit == InitUnit /\ [][NextUnit]_vars

\* two readers, or two resolvers, over one volume, called in any order
InitPair ==
    /\ kind = "journal"
    /\ store = <<>>
    /\ it = NewIter
    /\ log = <<>>
    /\ served = <<>>
    /\ tiled = TRUE
    /\ resolver = PathResolverNew
    /\ last = NoCall
    /\ journal = [active |-> TRUE, id |-> 1, max_size |-> DEFAULT_JOURNAL_MAX_SIZE,
                  delta |-> DEFAULT_JOURNAL_ALLOCATION_DELTA]
    /\ NoJournalUse
    /\ calc = NoCalc
    /\ duo \in {PairOf("readers"), PairOf("resolvers")}

NextPair == DuoNext \/ DuoResolve

SpecPair == InitPair /\ [][NextPair]_vars

----------------------------------------------------------------------------
(* Reading the history *)

IsRead(i) == log[i][1] = "read"
IsOkRead(i) == log[i][1] = "read" /\ log[i][3] = "ok"
IsFailedRead(i) == log[i][1] = "read" /\ log[i][3] \in OtherErrors
IsRet(i) == log[i][1] = "ret"

\* the index of the return that ends the next() call event i belongs to
RetOf(i) == CHOOSE j \in i..Len(log) : IsRet(j) /\ \A m \in i..(j - 1) : ~IsRet(m)

\* the entries yielded so far, in order
Yielded ==
    LET oks == SelectSeq(log, LAMBDA e : e[1] = "ret" /\ e[2][1] = "Ok")
    IN  [i \in 1..Len(oks) |-> oks[i][2][2]]

\* the most recent successful bulk read before event i, 0 if none
LastOkReadBefore(i) ==
    IF \E j \in 1..(i - 1) : IsOkRead(j)
    THEN CHOOSE j \in 1..(i - 1) : IsOkRead(j) /\ \A m \in (j + 1)..(i - 1) : ~IsOkRead(m)
    ELSE 0

----------------------------------------------------------------------------
(* Claims about the readers *)

\* C1: every bulk read after the first successful one starts at exactly the 8 bytes
\* found at byte 0 of the most recent successful result; those bytes are captured
\* right after the read, before any record of that buffer is decoded; the first
\* record decoded from a refreshed buffer is at offset 8 and no record is ever
\* decoded from the cursor bytes.
C1_CursorProtocol ==
    \A i \in 1..Len(log) :
        /\ (IsRead(i) /\ LastOkReadBefore(i) # 0) => log[i][2] = log[LastOkReadBefore(i)][4]
        /\ IsOkRead(i) =>
              /\ log[i + 1] = <<"capture", log[i][4]>>
              /\ log[i + 2][1] = "decode" => log[i + 2][2] = CursorSize
        /\ log[i][1] = "decode" => log[i][2] >= CursorSize

\* a second successful read was issued with a non-zero cursor taken from the first,
\* and a record of the second buffer was decoded
C1_Witness ==
    \E i, j \in 1..Len(log) :
        /\ i < j /\ IsOkRead(i) /\ IsOkRead(j)
        /\ log[i][4] # LE(0, CursorSize)
        /\ log[j][2] = log[i][4]
        /\ log[j + 2] = <<"decode", CursorSize>>

\* C2: while every successful bulk read is a cursor followed by records that exactly
\* tile the filled bytes, the entries yielded are, in order, the records the channel
\* has put into the successive buffers: none lost, none twice, all of them once the
\* buffer is exhausted; and a bulk read is issued only when offset >= bytes_read.
C2_NoLossNoDuplication ==
    tiled =>
        /\ Len(Yielded) <= Len(served)
        /\ Yielded = SubSeq(served, 1, Len(Yielded))
        /\ it.offset >= it.bytes_read => Yielded = served
        /\ \A i, j \in 1..Len(Yielded) : i # j => Yielded[i] # Yielded[j]
        /\ \A i \in 1..Len(log) : IsRead(i) => log[i][5] >= log[i][6]

\* three records of two lengths were yielded from two buffers
C2_Witness ==
    /\ tiled
    /\ Len(Yielded) = 3
    /\ Cardinality({i \in 1..Len(log) : IsOkRead(i) /\ log[i][7] > CursorSize}) = 2
    /\ it.offset >= it.bytes_read

\* C3: in a journal enumeration over a channel that returns the journal's records
\* from the start cursor on, in journal order, the usn of the yielded entries is
\* strictly increasing, whatever refills, Err items and None results lie between.
C3_UsnStrictlyIncreasing ==
    (kind = "journal" /\ tiled) =>
        \A i, j \in 1..Len(Yielded) : i < j => Yielded[i].usn < Yielded[j].usn

\* an entry, an Err, a None and then a further entry from a later buffer
C3_Witness ==
    /\ kind = "journal" /\ tiled
    /\ \E a, b, c, d \in 1..Len(log) :
          /\ a < b /\ b < c /\ c < d
          /\ IsRet(a) /\ log[a][2][1] = "Ok"
          /\ IsRet(b) /\ log[b][2][1] = "Err"
          /\ IsRet(c) /\ log[c][2][1] = "None"
          /\ IsRet(d) /\ log[d][2][1] = "Ok"

\* C4: a bulk read that reports ERROR_HANDLE_EOF, or that succeeds with nothing
\* past the 8-byte cursor, makes next() return None: no Err item, no entry.
C4_EndOfDataIsNone ==
    \A i \in 1..Len(log) :
        (IsRead(i) /\ (log[i][3] = ERROR_HANDLE_EOF \/ (log[i][3] = "ok" /\ log[i][7] <= CursorSize)))
            => log[RetOf(i)] = <<"ret", <<"None">> >>

\* both ends of data have happened: the error code and the cursor-only buffer
C4_Witness ==
    /\ \E i \in 1..Len(log) : IsRead(i) /\ log[i][3] = ERROR_HANDLE_EOF
    /\ \E i \in 1..Len(log) : IsOkRead(i) /\ log[i][7] = CursorSize
    /\ Len(Yielded) > 0

\* C5: a bulk read that fails with another code makes that next() call return
\* Some(Err(WinApiError)) carrying that code; nothing is decoded in that call.
C5_FailureIsObservable ==
    \A i \in 1..Len(log) :
        IsFailedRead(i) =>
            /\ RetOf(i) = i + 1
            /\ log[i + 1] = <<"ret", <<"Err", "WinApiError", log[i][3]>> >>

\* both failure codes have been yielded
C5_Witness ==
    \A c \in OtherErrors :
        \E i \in 1..Len(log) : IsRet(i) /\ log[i][2] = <<"Err", "WinApiError", c>>

\* C6 as stated: once an Err item was yielded, no further bulk read is issued and
\* every later next() returns None.
C6_ErrEndsIteration ==
    \A i \in 1..Len(log) :
        (IsRet(i) /\ log[i][2][1] = "Err") =>
            \A j \in (i + 1)..Len(log) :
                /\ ~IsRead(j)
                /\ IsRet(j) => log[j][2] = <<"None">>

\* C6 amended: a failed bulk read ends only the call it occurs in.  That call yields
\* an Err item, and the next() after it issues a further bulk read; it returns None
\* only if that read reports end of data or fills nothing past the cursor.
C6_ErrEndsOnlyTheCall ==
    \A i \in 1..Len(log) :
        IsFailedRead(i) =>
            /\ log[i + 1][1] = "ret" /\ log[i + 1][2][1] = "Err"
            /\ i + 2 <= Len(log) =>
                  /\ IsRead(i + 2)
                  /\ log[RetOf(i + 2)][2] = <<"None">> =>
                        \/ log[i + 2][3] = ERROR_HANDLE_EOF
                        \/ (log[i + 2][3] = "ok" /\ log[i + 2][7] <= CursorSize)

\* after an Err item a later call read again and yielded an entry
C6_Witness ==
    \E i \in 1..Len(log) :
        /\ IsFailedRead(i)
        /\ i + 2 <= Len(log)
        /\ IsOkRead(i + 2)
        /\ log[RetOf(i + 2)][2][1] = "Ok"

\* C7: a failed bulk read leaves the reader's offset and cursor as they were: the
\* following next() issues the bulk read again from the same offset with the same
\* cursor, and yields an entry if that read succeeds with a record.
C7_ErrLeavesReaderInPlace ==
    \A i \in 1..Len(log) :
        IsFailedRead(i) =>
            /\ i + 1 = Len(log) =>
                  /\ it.offset = log[i][5]
                  /\ LE(it.next_start, CursorSize) = log[i][2]
            /\ i + 2 <= Len(log) =>
                  /\ IsRead(i + 2)
                  /\ log[i + 2][2] = log[i][2]
                  /\ log[i + 2][5] = log[i][5]
                  /\ (log[i + 2][3] = "ok" /\ log[i + 2][7] > CursorSize)
                        => log[RetOf(i + 2)][2][1] = "Ok"

\* a read failed in mid-stream (cursor and offset non-zero) and the retry yielded
C7_Witness ==
    \E i \in 1..Len(log) :
        /\ IsFailedRead(i)
        /\ log[i][2] # LE(0, CursorSize)
        /\ log[i][5] > CursorSize
        /\ i + 2 <= Len(log)
        /\ IsOkRead(i + 2)
        /\ log[RetOf(i + 2)][2][1] = "Ok"

----------------------------------------------------------------------------
(* Claims about the path resolver *)

\* the (id, path, name) triples a cache holds, whatever their recency
Mappings(es) == {es[i] : i \in 1..Len(es)}

\* the last call was made on a resolver with a cache
CachedCall == last.called /\ resolver.some

\* before the last call the cache held the entry's id under the entry's name
WasHit ==
    /\ LruHas(last.before, last.fid)
    /\ LruPeek(last.before, last.fid).name = last.file_name

\* before the last call the cache held the entry's id under another name
WasStale ==
    /\ LruHas(last.before, last.fid)
    /\ LruPeek(last.before, last.fid).name # last.file_name

\* C8: if the cache holds entry.fid under a name equal to entry.name, resolve
\* returns the stored path, makes no system lookup whether or not the entry is a
\* directory, and leaves every cache mapping as it was (only recency changes).
C8_CacheHit ==
    (CachedCall /\ WasHit) =>
        /\ last.result = <<"Some", LruPeek(last.before, last.fid).path>>
        /\ last.lookups = <<>>
        /\ Mappings(resolver.entries) = Mappings(last.before)

\* a hit on an entry that says it is no directory, which changed the recency order
C8_Witness ==
    /\ CachedCall /\ WasHit
    /\ ~last.is_dir
    /\ resolver.entries # last.before
    /\ Len(LruPeek(last.before, last.fid).path) = MaxPathLen

\* the parent path the last call worked with after step 1: the cached one, or the
\* volume's answer
ParentUsed ==
    IF last.parent_fid # last.fid /\ LruHas(last.before, last.parent_fid)
    THEN <<"Ok", LruPeek(last.before, last.parent_fid).path>>
    ELSE IF last.lookups # <<>> THEN last.lookups[1][2]
    ELSE <<"Err">>

\* C9: if the cache holds entry.fid under a name different from entry.name, the
\* stale entry is removed and the entry is resolved again through its parent: a
\* parent that is not cached is looked up on the volume, no parent path gives no
\* path, and what the cache holds for entry.fid afterwards was put there by this
\* call.  When the parent path P is available and the entry is a directory, the
\* result is P joined with entry.name and the cache then maps entry.fid to exactly
\* that path and entry.name, with neither the old path nor the old name.
C9_RenameDetection ==
    (CachedCall /\ WasStale) =>
        LET old == LruPeek(last.before, last.fid)
            new == JoinPath(ParentUsed[2], last.file_name)
            kept == {e \in Mappings(resolver.entries) : e.fid = last.fid}
        IN  /\ (last.parent_fid # last.fid /\ ~last.is_dir) => kept = {}
            /\ (last.parent_fid # last.fid \/ last.is_dir) =>
                  \A e \in kept : e.name # old.name /\ e.path # old.path
            /\ (last.parent_fid = last.fid \/ ~LruHas(last.before, last.parent_fid))
                  => (Len(last.lookups) = 1 /\ last.lookups[1][1] = last.parent_fid)
            /\ ParentUsed[1] = "Err" => (last.result = <<"None">> /\ kept = {})
            /\ (ParentUsed[1] = "Ok" /\ last.is_dir) =>
                  /\ last.result = <<"Some", new>>
                  /\ Cardinality({i \in 1..Len(resolver.entries) :
                                    resolver.entries[i].fid = last.fid}) = 1
                  /\ kept = {[fid |-> last.fid, path |-> new, name |-> last.file_name]}

\* a renamed directory was resolved again under a cached parent
C9_Witness ==
    /\ CachedCall /\ WasStale
    /\ last.is_dir
    /\ last.parent_fid # last.fid
    /\ LruHas(last.before, last.parent_fid)
    /\ Len(LruPeek(last.before, last.fid).path) > 1
    /\ last.result[1] = "Some"

\* C10 as stated: if entry.fid is not usable from the cache and entry.parent_fid is
\* cached with path P, the result is P joined with entry.name, no system lookup is
\* made and the parent's cache entry is not modified.
C10_PathFromCachedParent ==
    (CachedCall /\ ~WasHit /\ LruHas(last.before, last.parent_fid)) =>
        /\ last.result
              = <<"Some", JoinPath(LruPeek(last.before, last.parent_fid).path, last.file_name)>>
        /\ last.lookups = <<>>
        /\ LruHas(resolver.entries, last.parent_fid)
        /\ LruPeek(resolver.entries, last.parent_fid) = LruPeek(last.before, last.parent_fid)

\* C10 amended: the same, for a parent id other than the entry's own id (a stale
\* entry.fid is evicted before the parent is looked up in the cache).
C10_PathFromOtherCachedParent ==
    (CachedCall /\ ~WasHit /\ last.parent_fid # last.fid
        /\ LruHas(last.before, last.parent_fid)) =>
        /\ last.result
              = <<"Some", JoinPath(LruPeek(last.before, last.parent_fid).path, last.file_name)>>
        /\ last.lookups = <<>>
        /\ LruHas(resolver.entries, last.parent_fid)
        /\ LruPeek(resolver.entries, last.parent_fid) = LruPeek(last.before, last.parent_fid)

\* a directory was resolved under a cached parent in a full cache of small capacity
C10_Witness ==
    /\ CachedCall /\ ~WasHit /\ last.parent_fid # last.fid
    /\ LruHas(last.before, last.parent_fid)
    /\ last.is_dir
    /\ resolver.cap = SmallCapacity
    /\ Len(last.before) = SmallCapacity
    /\ ~LruHas(last.before, last.fid)
    /\ Len(LruPeek(last.before, last.parent_fid).path) > 1

\* what the cache holds under the id f
EntriesOf(es, f) == {e \in Mappings(es) : e.fid = f}

\* C11 as stated: for an entry with is_dir false a resolve call never inserts
\* entry.fid as a key of the cache, whatever the parent id: what the cache holds
\* under entry.fid afterwards, it held before.
C11_OnlyDirectoriesCached ==
    (CachedCall /\ ~last.is_dir) =>
        EntriesOf(resolver.entries, last.fid) \subseteq EntriesOf(last.before, last.fid)

\* C11 amended: the same for a parent id other than entry.fid (an entry that names
\* itself as its parent is cached as that parent when the lookup succeeds); and an
\* entry held under another name is gone.
C11_OnlyDirectoriesCachedUnderOtherParent ==
    (CachedCall /\ ~last.is_dir /\ last.parent_fid # last.fid) =>
        /\ EntriesOf(resolver.entries, last.fid) \subseteq EntriesOf(last.before, last.fid)
        /\ WasStale => ~LruHas(resolver.entries, last.fid)

\* a file that was not cached was resolved through a parent looked up on the
\* volume, which the call cached
C11_Witness ==
    /\ CachedCall /\ ~last.is_dir /\ last.parent_fid # last.fid
    /\ ~LruHas(last.before, last.fid)
    /\ ~LruHas(last.before, last.parent_fid)
    /\ last.result[1] = "Some"
    /\ LruHas(resolver.entries, last.parent_fid)
    /\ ~LruHas(resolver.entries, last.fid)

\* the last call resolved a directory through its parent and returned a path
DirResolvedAgain ==
    CachedCall /\ last.is_dir /\ ~WasHit /\ last.result[1] = "Some"

\* C12: whenever resolve returns path Q for a directory through re-resolution (not
\* a cache hit), the cache afterwards maps entry.fid to (Q, entry.name), as its most
\* recently used entry; so the next entry with that id as its parent, another id
\* than the directory's and not itself answered from the cache, resolves to Q
\* joined with its name without a system lookup, whatever the volume would answer.
C12_DirectoryCaching ==
    DirResolvedAgain =>
        /\ EntriesOf(resolver.entries, last.fid)
              = {[fid |-> last.fid, path |-> last.result[2], name |-> last.file_name]}
        /\ resolver.entries[1].fid = last.fid
        /\ \A child \in Fids \ {last.fid}, name \in FileNames, dir \in BOOLEAN,
              ofParent \in LookupOutcomes :
              LET r == resolve_path_with_cache(ofParent, child, last.fid, name, dir,
                                               resolver.entries, resolver.cap)
                  hit == /\ LruHas(resolver.entries, child)
                         /\ LruPeek(resolver.entries, child).name = name
              IN  ~hit => /\ r.result = <<"Some", JoinPath(last.result[2], name)>>
                          /\ r.lookups = <<>>

\* a directory was resolved through a parent that had to be looked up, in a full
\* cache of small capacity
C12_Witness ==
    /\ DirResolvedAgain
    /\ last.lookups # <<>>
    /\ last.parent_fid # last.fid
    /\ resolver.cap = SmallCapacity
    /\ Len(last.before) = SmallCapacity
    /\ Len(last.result[2]) = MaxPathLen

\* C13: when entry.fid is not usable from the cache, entry.parent_fid is not cached
\* and the system lookup of the parent id fails, the cached resolver returns no
\* path; the cache keeps what it held (less an entry of entry.fid under another
\* name) and a later resolve call still returns a path when the volume answers.
C13_FailureIsNotFatal ==
    (CachedCall /\ ~WasHit /\ ~LruHas(last.before, last.parent_fid)
        /\ last.lookups = << <<last.parent_fid, <<"Err">> >> >>) =>
        /\ last.result = <<"None">>
        /\ resolver.some
        /\ resolver.entries = LruWithout(last.before, last.fid)
        /\ \A f \in Fids, p \in ParentFids, name \in FileNames, dir \in BOOLEAN :
              resolve_path_with_cache(<<"Ok", VolumeRoot>>, f, p, name, dir,
                                      resolver.entries, resolver.cap).result[1] = "Some"

\* the parent lookup failed for an entry of a cache that holds other entries
C13_Witness ==
    /\ CachedCall /\ ~WasHit /\ ~LruHas(last.before, last.parent_fid)
    /\ last.lookups = << <<last.parent_fid, <<"Err">> >> >>
    /\ last.result = <<"None">>
    /\ WasStale
    /\ resolver.entries # <<>>

\* the last call was made on a resolver without a cache
PlainCall == last.called /\ ~resolver.some

\* what a resolver built by new_with_cache returns for the last call's entry and
\* the same answer of the volume, its cache being empty
OnEmptyCache ==
    resolve_path_with_cache(last.lookups[1][2], last.fid, last.parent_fid, last.file_name,
                            last.is_dir, <<>>, LRU_CACHE_CAPACITY).result

\* C14 as stated: the resolver without a cache returns what a resolver with an
\* empty cache returns, for every entry and every answer of the volume.
C14_SameAsEmptyCache ==
    PlainCall => last.result = OnEmptyCache

\* C14 amended: the two agree whenever the parent id can be looked up; when it
\* cannot, the resolver without a cache looks up the entry's own id and returns
\* that path, and no path only if that lookup fails too.
C14_SameAsEmptyCacheWhenParentFound ==
    PlainCall =>
        /\ last.lookups[1][1] = last.parent_fid
        /\ last.lookups[1][2][1] = "Ok" =>
              /\ last.result = OnEmptyCache
              /\ last.result = <<"Some", JoinPath(last.lookups[1][2][2], last.file_name)>>
              /\ Len(last.lookups) = 1
        /\ last.lookups[1][2][1] = "Err" =>
              /\ OnEmptyCache = <<"None">>
              /\ Len(last.lookups) = 2
              /\ last.lookups[2][1] = last.fid
              /\ last.result = IF last.lookups[2][2][1] = "Ok"
                               THEN <<"Some", last.lookups[2][2][2]>> ELSE <<"None">>

\* without a cache, a path was returned for an entry whose parent was looked up
C14_Witness ==
    /\ PlainCall
    /\ last.lookups[1][2][1] = "Ok"
    /\ Len(last.lookups[1][2][2]) > 1
    /\ last.result[1] = "Some"

\* the last call resolved again a directory cached under another name, in the
\* directory it was in: a rename
RenamedDirResolved ==
    /\ CachedCall /\ WasStale /\ last.is_dir /\ last.result[1] = "Some"
    /\ last.parent_fid # last.fid
    /\ LET old == LruPeek(last.before, last.fid).path
       IN  /\ Len(old) > 1
           /\ SubSeq(old, 1, Len(old) - 1) = SubSeq(last.result[2], 1, Len(last.result[2]) - 1)

\* path p lies below path q
Below(p, q) == Len(p) > Len(q) /\ SubSeq(p, 1, Len(q)) = q

\* the entries the cache held, before the last call, for paths below the old path
\* of the entry the call resolved
CachedDescendants ==
    {e \in Mappings(last.before) :
        e.fid # last.fid /\ Below(e.path, LruPeek(last.before, last.fid).path)}

\* C15: re-resolving a renamed directory X changes no cache entry of X's cached
\* descendants, and when such a descendant (here a child of X, under its unchanged
\* name) is itself resolved next, its resolution reflects X's new name: it is X's
\* new path joined with the child's name.
C15_PointCheckThenRevalidation ==
    [][RenamedDirResolved =>
        \A e \in CachedDescendants :
            /\ EntriesOf(resolver.entries, e.fid) \subseteq {e}
            /\ (/\ e.path = JoinPath(LruPeek(last.before, last.fid).path, e.name)
                /\ last'.fid = e.fid
                /\ last'.parent_fid = last.fid
                /\ last'.file_name = e.name)
               => last'.result = <<"Some", JoinPath(last.result[2], e.name)>>]_vars

\* the ids the last call looked up in the cache: a hit ends the call before the
\* parent is looked up
Used == IF WasHit THEN {last.fid} ELSE {last.fid, last.parent_fid}

\* positions of the entries that were in the cache before the last call and are in
\* it no more, other than the entry removed for its name
Evicted ==
    {i \in 1..Len(last.before) :
        /\ ~LruHas(resolver.entries, last.before[i].fid)
        /\ ~(last.before[i].fid = last.fid /\ WasStale)}

\* C16: the cache never holds more entries than its capacity, nor two entries for
\* one id.  When a call's insertion exceeds the capacity the cache is left full and
\* each entry removed was the least recently used: it was not looked up by the
\* call (neither as fid nor as parent_fid) and every entry that stays and was not
\* used by the call was more recent than it.  The entries the call used are the most
\* recent ones afterwards.
C16_BoundedLru ==
    resolver.some =>
        /\ Len(resolver.entries) <= resolver.cap
        /\ \A i, j \in 1..Len(resolver.entries) :
              resolver.entries[i].fid = resolver.entries[j].fid => i = j
        /\ last.called =>
              /\ Evicted # {} => Len(resolver.entries) = resolver.cap
              /\ \A i \in Evicted :
                    /\ last.before[i].fid \notin Used
                    /\ \A j \in 1..Len(last.before) :
                          (/\ LruHas(resolver.entries, last.before[j].fid)
                           /\ last.before[j].fid \notin Used)
                          => j < i
              /\ \A i \in 1..Len(resolver.entries) :
                    (resolver.entries[i].fid \in Used)
                    => \A j \in 1..(i - 1) :
                          resolver.entries[j].fid \in Used

\* in a full cache the parent was the least recently used entry; the call looked it
\* up, inserted the directory and so removed the other entry
C16_Witness ==
    /\ CachedCall /\ last.is_dir
    /\ resolver.cap = SmallCapacity
    /\ Len(last.before) = SmallCapacity
    /\ last.before[Len(last.before)].fid = last.parent_fid
    /\ ~LruHas(last.before, last.fid)
    /\ Evicted = 1..(Len(last.before) - 1)
    /\ LruHas(resolver.entries, last.parent_fid)

----------------------------------------------------------------------------
(* Claims about the change journal and the construction of its readers *)

\* the requests of the last call that carry the control code c
Issued(c) == {i \in 1..Len(op.ioctls) : op.ioctls[i].code = c}

\* what a caller gets for the outcome o of a control request
Propagated(o) == IF o[1] = "Ok" THEN o ELSE WinApiError(o[2])

C18_DeleteQueriesFirst ==
    op.name = "delete" =>
        LET q1 == op.ioctls[1]
        IN  /\ q1.code = "FSCTL_QUERY_USN_JOURNAL"
            /\ Issued("FSCTL_CREATE_USN_JOURNAL") = {}
            /\ q1.outcome[1] = "Ok" =>
                  /\ Len(op.ioctls) = 2
                  /\ op.ioctls[2].code = "FSCTL_DELETE_USN_JOURNAL"
                  /\ op.ioctls[2].input
                        = [UsnJournalID |-> q1.outcome[2].journal_id,
                           DeleteFlags |-> {USN_DELETE_FLAG_DELETE, USN_DELETE_FLAG_NOTIFY}]
                  /\ op.result = Propagated(op.ioctls[2].outcome)
            /\ q1.outcome[1] = "Err" =>
                  /\ Len(op.ioctls) = 1
                  /\ op.result = WinApiError(q1.outcome[2])
                  /\ journal = op.before
            /\ ~op.before.active =>
                  (op.result[1] = "Err" /\ ~journal.active
                   /\ Issued("FSCTL_DELETE_USN_JOURNAL") = {})

\* delete() on a volume without a journal returned the query's not-active error
C18_Witness ==
    /\ op.name = "delete"
    /\ ~op.before.active
    /\ op.before.id > 0
    /\ op.result = WinApiError(ERROR_JOURNAL_NOT_ACTIVE)

\* the request r, its start cursor aside
ButStart(r) == [r EXCEPT !.StartUsn = 0]

\* C19: every bulk read issued by a journal reader built by
\* iter_with_options(options) carries the journal id returned by the query at
\* construction and options' reason mask, only-on-close flag and timeout; the first
\* bulk read's start cursor is options.start_usn; between bulk reads only the start
\* cursor varies.
C19_ReaderConfigurationFixed ==
    made.by = "iter_with_options" =>
        /\ \A i \in 1..Len(reads) :
              /\ reads[i].UsnJournalID = made.queried.journal_id
              /\ reads[i].ReasonMask = made.options.reason_mask
              /\ reads[i].ReturnOnlyOnClose = BoolAsInt(made.options.only_on_close)
              /\ reads[i].Timeout = made.options.timeout
        /\ reads # <<>> => reads[1].StartUsn = made.options.start_usn
        /\ \A i, j \in 1..Len(reads) : ButStart(reads[i]) = ButStart(reads[j])

\* a reader built with options of its own read twice, from different cursors, after
\* the journal it was built for was replaced
C19_Witness ==
    /\ made.by = "iter_with_options"
    /\ made.options # EnumOptionsDefault
    /\ Len(reads) >= 2
    /\ reads[1].StartUsn # reads[2].StartUsn
    /\ journal.id # made.queried.journal_id

\* the reader waits for more data: its bytes-to-wait-for is what iter_with_options
\* sets for wait_for_more true
BlockingWait(r) == r.bytes_to_wait_for = BoolAsInt(TRUE)

\* what C20 says of the reader iter() builds and of EnumOptions::default(), the
\* wait aside
DefaultIteration ==
    /\ made.by = "iter" =>
          /\ reads = <<>> => reader.next_start_usn = 0
          /\ reads # <<>> => reads[1].StartUsn = 0
          /\ reader.reason_mask = <<255, 255, 255, 255>>
          /\ reader.return_only_on_close = 0
          /\ reader.timeout = 0
    /\ (made.by = "iter_with_options" /\ made.options = EnumOptionsDefault) =>
          /\ made.options.start_usn = 0
          /\ made.options.reason_mask = <<255, 255, 255, 255>>
          /\ ~made.options.only_on_close
          /\ made.options.timeout = 0
          /\ ~made.options.wait_for_more
          /\ made.options.buffer_size = 65536
          /\ reader.buffer_len = 65536

\* C20 as stated: the reader built by iter() starts at sequence 0 with reason mask
\* 0xFFFFFFFF, only-on-close off, timeout 0, blocking wait disabled and a one-byte
\* minimum wait threshold; EnumOptions::default() is start_usn 0, reason mask
\* 0xFFFFFFFF, only_on_close false, timeout 0, wait_for_more false, 64 KiB.
C20_DefaultIterationDoesNotWait ==
    /\ DefaultIteration
    /\ made.by = "iter" =>
          /\ ~BlockingWait(reader)
          /\ reader.bytes_to_wait_for = 1
          /\ \A i \in 1..Len(reads) : reads[i].BytesToWaitFor = 1

\* C20 amended: the same without "blocking wait disabled": iter() sets the one-byte
\* threshold, which is the setting of wait_for_more true.
C20_DefaultIteration ==
    /\ DefaultIteration
    /\ made.by = "iter" =>
          /\ reader.bytes_to_wait_for = 1
          /\ BlockingWait(reader)
          /\ \A i \in 1..Len(reads) : reads[i].BytesToWaitFor = 1

\* a reader built by iter() has issued its first read
C20_Witness ==
    /\ made.by = "iter"
    /\ Len(reads) = 1
    /\ reads[1].BytesToWaitFor = 1

\* C21: Mft::iter_with_options(options) builds a reader whose first bulk read starts
\* at the file-id cursor options.low_usn (its 8 bytes read as unsigned) and whose
\* every bulk read passes options.low_usn and options.high_usn unchanged; the default
\* options, and Mft::iter(), give low 0, high i64::MAX and cursor 0.
C21_MftReaderRange ==
    /\ made.by = "Mft::iter_with_options" =>
          /\ reads = <<>> => reader.next_start_fid = made.options.low_usn
          /\ reads # <<>> => reads[1].StartFileReferenceNumber = made.options.low_usn
          /\ \A i \in 1..Len(reads) :
                /\ reads[i].LowUsn = made.options.low_usn
                /\ reads[i].HighUsn = made.options.high_usn
    /\ (made.by = "Mft::iter_with_options" /\ made.options = MftEnumOptionsDefault) =>
          /\ made.options.low_usn = <<0, 0, 0, 0, 0, 0, 0, 0>>
          /\ made.options.high_usn = <<255, 255, 255, 255, 255, 255, 255, 127>>
    /\ made.by = "Mft::iter" =>
          /\ reads = <<>> => reader.next_start_fid = <<0, 0, 0, 0, 0, 0, 0, 0>>
          /\ reads # <<>> =>
                reads[1].StartFileReferenceNumber = <<0, 0, 0, 0, 0, 0, 0, 0>>
          /\ \A i \in 1..Len(reads) :
                /\ reads[i].LowUsn = <<0, 0, 0, 0, 0, 0, 0, 0>>
                /\ reads[i].HighUsn = <<255, 255, 255, 255, 255, 255, 255, 127>>

\* a table reader built with a negative lower bound has read twice: the first read
\* started at a file id above every i64, the second at the cursor the first returned
C21_Witness ==
    /\ made.by = "Mft::iter_with_options"
    /\ made.options.low_usn[8] >= 128
    /\ Len(reads) >= 2
    /\ reads[1].StartFileReferenceNumber[8] >= 128
    /\ reads[2].StartFileReferenceNumber # reads[1].StartFileReferenceNumber
    /\ reads[2].LowUsn = made.options.low_usn

\* a record decoder was applied, to a record of the test builder or of the volume
Decoded == calc.fn \in {"UsnEntry::new", "MftEntry::new"}
DecodedMock == Decoded /\ calc.of = "mock"
DecodedRecord == Decoded /\ calc.of = "volume"

\* the name a record holds where it says: FileNameLength bytes of UTF-16 code units,
\* FileNameOffset bytes from the start of the record
NameReported(bytes) ==
    from_wide(ReadName(bytes, ReadLE(bytes, OffFileNameOffset, 2),
                       ReadLE(bytes, OffFileNameLength, 2) \div 2))

\* C22: the decoded name is exactly name_length bytes of UTF-16 code units starting
\* name_offset bytes from the start of the record, for every name_offset the record
\* reports, not only the offset right after the fixed header.
C22_NameAtReportedOffset ==
    Decoded => calc.out.file_name = NameReported(calc.bytes)

\* C23: encoding usn, file id, parent id, reason, attributes and name into the wire
\* layout and decoding the record yields exactly those fields, for empty and
\* non-ASCII names too.
C23_RoundTrip ==
    DecodedMock =>
        /\ calc.out.usn = calc.in.usn
        /\ calc.out.fid = calc.in.fid
        /\ calc.out.parent_fid = calc.in.parent_fid
        /\ calc.fn = "UsnEntry::new" => calc.out.reason = calc.in.reason
        /\ calc.out.file_attributes = SumOf(calc.in.bits)
        /\ calc.out.file_name = calc.in.file_name

\* a journal record with a negative usn, attributes and a name beyond the basic
\* plane, written as a surrogate pair, was encoded and decoded
C23_Witness ==
    /\ DecodedMock
    /\ calc.fn = "UsnEntry::new"
    /\ calc.in.usn < 0
    /\ calc.in.reason = 256
    /\ calc.in.bits = AttributeBits
    /\ calc.in.file_name = <<128512>>
    /\ ReadLE(calc.bytes, OffFileNameLength, 2) = 4
    /\ calc.out.file_name = <<128512>>

\* C24: is_dir() is true exactly when attribute bit 0x10 is set and is_hidden()
\* exactly when bit 0x02 is set, whatever the other bits, for journal and table
\* entries.
C24_AttributePredicates ==
    DecodedMock =>
        /\ entry_is_dir(calc.out) <=> 16 \in calc.in.bits
        /\ entry_is_hidden(calc.out) <=> 2 \in calc.in.bits

\* a table entry with the directory bit and another bit, but not the hidden bit
C24_Witness ==
    /\ DecodedMock
    /\ calc.fn = "MftEntry::new"
    /\ calc.in.bits = {16, 32}
    /\ calc.out.file_attributes = 48
    /\ entry_is_dir(calc.out)
    /\ ~entry_is_hidden(calc.out)

RECURSIVE MulAdd(_, _, _, _)
\* the digits i..16 of n * m + c, for hexadecimal digits n with the lowest first
MulAdd(n, i, m, c) ==
    IF i > 16 THEN <<>>
    ELSE LET cur == (n[i] * m) + c
         IN  <<cur % 16>> \o MulAdd(n, i + 1, m, cur \div 16)

\* the 100 ns ticks from the Windows epoch to an instant, as the 8 bytes of a u64
TicksOf(instant) ==
    FromNibbles(MulAdd(Nibbles(instant.secs), 1, 10000000, instant.nanos \div 100))

Converted == calc.fn = "filetime_to_systemtime"

\* C25: for every tick count t >= 0 up to i64::MAX, filetime_to_systemtime(t)
\* succeeds with the instant t * 100 ns after 1601-01-01 00:00:00 UTC, as t div
\* 10,000,000 seconds and (t mod 10,000,000) * 100 nanoseconds;
\* 116,444,736,000,000,000 gives the Unix epoch and 0 gives 1601-01-01.
C25_FiletimeConversion ==
    (Converted /\ calc.in[8] < 128) =>
        /\ calc.out[1] = "Ok"
        /\ calc.out[2].nanos \in 0..999999999
        /\ calc.out[2].nanos % 100 = 0
        /\ TicksOf(calc.out[2]) = calc.in
        /\ calc.in = <<0, 128, 62, 213, 222, 177, 157, 1>> => calc.out[2] = UNIX_EPOCH
        /\ calc.in = <<0, 0, 0, 0, 0, 0, 0, 0>> => calc.out[2] = WINDOWS_EPOCH_UTC

\* one millisecond after the Unix epoch was converted
C25_Witness ==
    /\ Converted
    /\ calc.in = <<16, 167, 62, 213, 222, 177, 157, 1>>
    /\ calc.out = <<"Ok", [secs |-> UNIX_EPOCH.secs, nanos |-> 1000000]>>

\* a rejection with OtherError
Rejected(result) == result[1] = "Err" /\ result[2] = "OtherError"

\* the value is an instant
IsInstant(t) == DOMAIN t = {"secs", "nanos"}

\* C26: every conversion of a negative tick count, asked for directly or made by
\* UsnEntry::new while it decodes a record, yields a rejection (OtherError) and
\* never a valid time.
C26_NegativeTicksRejected ==
    /\ (Converted /\ calc.in[8] >= 128) => Rejected(calc.out)
    /\ (DecodedRecord /\ calc.fn = "UsnEntry::new" /\ calc.in.time[8] >= 128) =>
          ~IsInstant(calc.out.time)

\* C26 amended: filetime_to_systemtime rejects every negative tick count with
\* OtherError; UsnEntry::new replaces the rejection by the Unix epoch.
C26_NegativeTicksRejectedOrEpoch ==
    /\ (Converted /\ calc.in[8] >= 128) => Rejected(calc.out)
    /\ (DecodedRecord /\ calc.fn = "UsnEntry::new" /\ calc.in.time[8] >= 128) =>
          calc.out.time = UNIX_EPOCH

\* a journal record whose timestamp is -10,000,000 was decoded
C26_Witness ==
    /\ DecodedRecord
    /\ calc.fn = "UsnEntry::new"
    /\ calc.in.time = <<128, 105, 103, 255, 255, 255, 255, 255>>
    /\ calc.out.time = UNIX_EPOCH

\* C29: opening a volume by a mount-point path that does not resolve to a volume
\* fails with the InvalidMountPoint error, not another variant, and returns no
\* Volume.
C29_InvalidMountPoint ==
    (/\ calc.fn = "Volume::from_mount_point"
     /\ calc.in.mount_point \notin MountPoints
     /\ calc.in.elevated = <<"Ok", TRUE>>) =>
        /\ calc.out[1] = "Err"
        /\ calc.out[2] = "InvalidMountPointError"

\* C30: the reader checks offset + RecordLength against the bytes filled before it
\* decodes or advances, so after every next() that yields a record the offset is
\* at most the bytes filled, whatever length the record reports.
C30_OffsetWithinBytesRead ==
    (log # <<>> /\ log[Len(log)][2][1] = "Ok") => it.offset <= it.bytes_read

RECURSIVE SoloReader(_, _)
\* the reader, and the items it returns, when the first n of the calls asked are
\* made on a reader that is alone on the volume
SoloReader(asked, n) ==
    IF n = 0 THEN [own |-> NewIter, got |-> <<>>]
    ELSE LET p == SoloReader(asked, n - 1)
             f == find_next_entry("journal", p.own, asked[n].resp, asked[n].zeroed)
         IN  [own |-> f.it, got |-> Append(p.got, NextItem("journal", f))]

RECURSIVE SoloResolver(_, _)
\* the same for a resolver
SoloResolver(asked, n) ==
    IF n = 0 THEN [own |-> PathResolverNewWithCache, got |-> <<>>]
    ELSE LET p == SoloResolver(asked, n - 1)
             r == resolve_path_with_cache(<<"Ok", VolumeRoot>>, asked[n].fid, 3,
                                          asked[n].file_name, TRUE,
                                          p.own.entries, p.own.cap)
         IN  [own |-> [p.own EXCEPT !.entries = r.entries], got |-> Append(p.got, r.result)]

Solo(what, asked) ==
    IF what = "readers" THEN SoloReader(asked, Len(asked))
    ELSE SoloResolver(asked, Len(asked))

ParentLookedUp == CachedCall /\ ~WasHit /\ ~LruHas(last.before, last.parent_fid)

\* the entry of the last call is a directory that names itself as its parent
SelfParentDir == last.parent_fid = last.fid /\ last.is_dir

\* C31 as stated: when entry.fid is not usable from the cache and entry.parent_fid
\* is not cached, exactly one system lookup is made, of the parent id; when it
\* succeeds with path P the cache afterwards maps parent_fid to (P, final component
\* of P, or the empty name) and the result is P joined with entry.name.
C31_ParentLookupCached ==
    ParentLookedUp =>
        /\ Len(last.lookups) = 1
        /\ last.lookups[1][1] = last.parent_fid
        /\ last.lookups[1][2][1] = "Ok" =>
              LET P == last.lookups[1][2][2]
              IN  /\ last.result = <<"Some", JoinPath(P, last.file_name)>>
                  /\ EntriesOf(resolver.entries, last.parent_fid)
                        = {[fid |-> last.parent_fid, path |-> P, name |-> FileNameOf(P)]}

\* C31 amended: the same, except that for a directory that names itself as its
\* parent the mapping of the id is replaced by the entry's own: (P joined with
\* entry.name, entry.name).
C31_ParentLookupCachedUnlessOverwritten ==
    ParentLookedUp =>
        /\ Len(last.lookups) = 1
        /\ last.lookups[1][1] = last.parent_fid
        /\ last.lookups[1][2][1] = "Ok" =>
              LET P == last.lookups[1][2][2]
              IN  /\ last.result = <<"Some", JoinPath(P, last.file_name)>>
                  /\ EntriesOf(resolver.entries, last.parent_fid)
                        = IF SelfParentDir
                          THEN {[fid |-> last.fid, path |-> JoinPath(P, last.file_name),
                                 name |-> last.file_name]}
                          ELSE {[fid |-> last.parent_fid, path |-> P,
                                 name |-> FileNameOf(P)]}

\* a file whose parent was not cached was resolved: the parent was looked up, found
\* below the root, and cached under its final component
C31_Witness ==
    /\ ParentLookedUp
    /\ ~last.is_dir
    /\ last.parent_fid # last.fid
    /\ last.lookups = << <<last.parent_fid, <<"Ok", VolumeRoot \o <<"a">> >> >> >>
    /\ LruPeek(resolver.entries, last.parent_fid).name = "a"
    /\ last.result = <<"Some", VolumeRoot \o <<"a", last.file_name>> >>

\* file_id_to_path has returned
LookedUp == calc.fn = "file_id_to_path"

\* the handles the last file_id_to_path opened
HandlesOpened ==
    IF \E i \in DOMAIN calc.out.calls : calc.out.calls[i][1] = "OpenFileById"
    THEN IF calc.in.opened[1] = "Ok" THEN {calc.in.opened[2]} ELSE {}
    ELSE {}

\* the handles the last file_id_to_path passed to CloseHandle
HandlesClosed ==
    {calc.out.calls[i][2] : i \in {k \in DOMAIN calc.out.calls :
                                       calc.out.calls[k][1] = "CloseHandle"}}

\* C32 as stated: every file handle opened by file_id_to_path is closed before the
\* function returns: on the success path, after any number of larger-buffer
\* retries, and on every failure path of the name query.
C32_HandleDiscipline ==
    LookedUp => HandlesOpened \subseteq HandlesClosed

\* the name query failed with an error other than ERROR_MORE_DATA after a retry
C32_QueryFailed ==
    /\ LookedUp
    /\ HandlesOpened = {"file"}
    /\ calc.in.more > 0
    /\ calc.in.final[1] = "Err"
    /\ calc.out.result = calc.in.final
    /\ HandlesClosed = {}

\* whenever the name query succeeds the handle is passed to CloseHandle
C32_ClosedOnSuccess ==
    (LookedUp /\ HandlesOpened # {} /\ calc.in.final[1] = "Ok")
        => HandlesOpened \subseteq HandlesClosed

\* the last call was UsnJournal::iter() and it built a reader
IterBuilt == op.name = "iter" /\ op.result = <<"Ok">>

\* C33 as stated: UsnJournal::iter() and Mft::iter() build exactly the reader state
\* that iter_with_options of the default options builds.
C33_IterIsDefaultOptions ==
    /\ IterBuilt => reader = iter_with_options(made.queried, EnumOptionsDefault)
    /\ op.name = "Mft::iter" => reader = mft_iter_with_options(MftEnumOptionsDefault)

\* C33 amended: the same, except for bytes-to-wait-for of the journal reader, which
\* iter() sets to 1 and iter_with_options of the default options sets to 0.
C33_IterIsDefaultOptionsButWait ==
    /\ IterBuilt =>
          LET other == iter_with_options(made.queried, EnumOptionsDefault)
          IN  /\ reader = [other EXCEPT !.bytes_to_wait_for = 1]
              /\ other.bytes_to_wait_for = 0
    /\ op.name = "Mft::iter" => reader = mft_iter_with_options(MftEnumOptionsDefault)

\* iter() has built a reader on a journal it had to create
C33_Witness ==
    /\ IterBuilt
    /\ ~op.before.active
    /\ reader.journal_id = journal.id
    /\ reader.buffer_len = DEFAULT_BUFFER_SIZE
    /\ reader.bytes_to_wait_for = 1

\* the journal is created with the default size and growth by request c
DefaultCreate(c) ==
    /\ c.code = "FSCTL_CREATE_USN_JOURNAL"
    /\ c.input = [MaximumSize |-> DEFAULT_JOURNAL_MAX_SIZE,
                  AllocationDelta |-> DEFAULT_JOURNAL_ALLOCATION_DELTA]

\* what a step of iter() or iter_with_options() does, o being the call it records
IterConstruction(o) ==
    /\ o.before = journal
    /\ o.ioctls[1].code = "FSCTL_QUERY_USN_JOURNAL"
    /\ o.ioctls[1].outcome = <<"Err", ERROR_JOURNAL_NOT_ACTIVE>> =>
          /\ Len(o.ioctls) >= 2
          /\ DefaultCreate(o.ioctls[2])
          /\ o.ioctls[2].outcome = <<"Ok">> =>
                /\ journal' = [active |-> TRUE, id |-> journal.id + 1,
                                max_size |-> DEFAULT_JOURNAL_MAX_SIZE,
                                delta |-> DEFAULT_JOURNAL_ALLOCATION_DELTA]
                /\ Len(o.ioctls) = 3
                /\ o.ioctls[3].code = "FSCTL_QUERY_USN_JOURNAL"
                /\ o.result = <<"Ok">> =>
                      /\ o.ioctls[3].outcome = <<"Ok", JournalData(journal')>>
                      /\ reader'.journal_id = journal'.id
    /\ o.ioctls[1].outcome[1] = "Ok" =>
          /\ journal' = journal
          /\ Len(o.ioctls) = 1
          /\ o.result = <<"Ok">>
          /\ reader'.journal_id = journal.id
    /\ o.result = <<"Ok">> => (reader'.built /\ reads' = <<>>)
    /\ o.result[1] = "Err" => (reader' = reader /\ made' = made /\ reads' = reads)

\* C34: iter() and iter_with_options() call query(true) before building the reader:
\* on a journal that is not active they create it with the default size and growth
\* and the reader carries the id of the second query; when the query fails no
\* reader is built and the call issues no bulk read.
C34_ConstructionQueriesAndCreates ==
    [][op'.name \in {"iter", "iter_with_options"} => IterConstruction(op')]_vars

\* iter_with_options() has created the journal and built a reader with its new id
C34_Witness ==
    /\ op.name = "iter_with_options"
    /\ ~op.before.active
    /\ Len(op.ioctls) = 3
    /\ op.result = <<"Ok">>
    /\ journal.active
    /\ journal.id = op.before.id + 1
    /\ reader.journal_id = journal.id
    /\ reads = <<>>

\* event i is a next() call returning None
IsNone(i) == IsRet(i) /\ log[i][2] = <<"None">>

\* C35: None is not sticky.  After next() has returned None the reader has
\* offset >= bytes_read, so the next call issues exactly one bulk read, with the
\* reader's current cursor, and yields the first record of what it read if there
\* is one; when the call that returned None had read a buffer holding a cursor
\* only, that cursor is the one the next read starts at.
C35_NoneIsNotSticky ==
    /\ (log # <<>> /\ IsNone(Len(log))) => it.offset >= it.bytes_read
    /\ \A i \in 1..Len(log) :
          (IsNone(i) /\ i < Len(log)) =>
              /\ IsRead(i + 1)
              /\ log[i + 1][5] >= log[i + 1][6]
              /\ \A m \in (i + 2)..RetOf(i + 1) : ~IsRead(m)
              /\ LastOkReadBefore(i + 1) # 0 =>
                    log[i + 1][2] = log[LastOkReadBefore(i + 1)][4]
              /\ LastOkReadBefore(i + 1) = 0 =>
                    log[i + 1][2] = LE(NewIter.next_start, CursorSize)
              /\ (i > 2 /\ IsOkRead(i - 2)) => log[i + 1][2] = log[i - 2][4]
              /\ (IsOkRead(i + 1) /\ log[i + 1][7] > CursorSize) =>
                    /\ log[i + 3] = <<"decode", CursorSize>>
                    /\ RetOf(i + 1) = i + 4
                    /\ log[i + 4][2][1] = "Ok"

\* a read of a cursor-only buffer, with a cursor other than the start value, made
\* next() return None; the next call read from that cursor and yielded an entry
C35_Witness ==
    \E i \in 3..Len(log) :
        /\ IsNone(i)
        /\ IsOkRead(i - 2)
        /\ log[i - 2][7] = CursorSize
        /\ log[i - 2][4] # LE(NewIter.next_start, CursorSize)
        /\ i + 4 <= Len(log)
        /\ IsOkRead(i + 1)
        /\ log[i + 1][2] = log[i - 2][4]
        /\ IsRet(i + 4)
        /\ log[i + 4][2][1] = "Ok"

\* the reader's offset once the call that decoded at event i had returned: where
\* the next call decoded, or the offset it issued its bulk read at, or the offset now
OffsetAfter(i) ==
    IF i + 2 <= Len(log)
    THEN IF log[i + 2][1] = "decode" THEN log[i + 2][2] ELSE log[i + 2][5]
    ELSE it.offset

\* C36 as stated: every next() call that yields an entry strictly increases the
\* offset, for every record length the buffer reports, 0 included (so that a buffer
\* is exhausted, and None reached, after finitely many calls).
C36_YieldAdvances ==
    \A i \in 1..Len(log) : log[i][1] = "decode" => OffsetAfter(i) > log[i][2]

\* the same record, of length 0, was yielded by two calls in a row from offset 8
C36_SameRecordAgain ==
    \E i \in 1..Len(log) :
        /\ i + 3 <= Len(log)
        /\ log[i] = <<"decode", CursorSize>>
        /\ log[i + 2] = <<"decode", CursorSize>>
        /\ log[i + 1][2][1] = "Ok"
        /\ log[i + 3] = log[i + 1]
        /\ ReadLE(it.buffer, CursorSize + OffRecordLength, 4) = 0
        /\ it.offset = CursorSize
        /\ it.offset < it.bytes_read

\* the last call was made on a resolver with a cache and returned no path
Failed == CachedCall /\ last.result = <<"None">>

\* C37 as stated: whenever the cached resolver returns no path, the cache keys and
\* every stored (path, name) pair are the same as before the call, also when
\* entry.fid was cached under a different name.
C37_FailureLeavesCache ==
    Failed => Mappings(resolver.entries) = Mappings(last.before)

\* C37 amended: whenever the cached resolver returns no path, the cache keys and
\* stored pairs are the same as before the call, except that an entry of entry.fid
\* cached under a different name has been removed.
C37_FailureRemovesOnlyStale ==
    Failed =>
        /\ Mappings(resolver.entries)
              = Mappings(last.before) \ EntriesOf(last.before, last.fid)
        /\ ~WasStale => Mappings(resolver.entries) = Mappings(last.before)

\* a resolution failed for an id cached under another name while the cache held a
\* second entry: the stale entry is gone, the other one is kept
C37_Witness ==
    /\ Failed
    /\ WasStale
    /\ last.lookups = << <<last.parent_fid, <<"Err">> >> >>
    /\ ~LruHas(resolver.entries, last.fid)
    /\ Mappings(resolver.entries) # {}

\* the name of every cache entry is the final component of its path, or empty
\* when the path has none
NamesArePathEnds(es) == \A e \in Mappings(es) : e.name = FileNameOf(e.path)

\* C38 as stated: starting from an empty cache, after any sequence of resolve calls
\* every cache entry fid -> (path, name) has the final component of path for its
\* name (the empty name when path has none), also when fid = parent_fid.
C38_CacheConsistency == NamesArePathEnds(resolver.entries)

\* names that are no component of a path
NoComponent == {"", "."}

\* C38 amended: the same for every cache entry whose name is neither "." nor empty;
\* a directory resolved under the name "." (as the volume root is recorded) or under
\* the empty name is cached under that name with the path of its parent.
C38_CacheConsistencyOfPlainNames ==
    /\ NamesArePathEnds(SelectSeq(resolver.entries, LAMBDA e : e.name \notin NoComponent))
    /\ (CachedCall /\ ~WasHit /\ last.is_dir /\ last.result[1] = "Some"
          /\ last.file_name \in NoComponent) =>
            LET parent == IF last.lookups = <<>>
                          THEN LruPeek(LruPop(last.before, last.fid), last.parent_fid).path
                          ELSE last.lookups[1][2][2]
            IN  EntriesOf(resolver.entries, last.fid)
                  = {[fid |-> last.fid, path |-> parent, name |-> last.file_name]}

\* a directory that is its own parent was resolved under the name "a" and is cached
\* with a path ending in "a", next to an entry of another id
C38_Witness ==
    /\ CachedCall
    /\ last.fid = last.parent_fid
    /\ last.is_dir
    /\ last.file_name = "a"
    /\ last.result = <<"Some", VolumeRoot \o <<"a">> >>
    /\ EntriesOf(resolver.entries, last.fid)
          = {[fid |-> last.fid, path |-> VolumeRoot \o <<"a">>, name |-> "a"]}
    /\ Len(resolver.entries) = 2

\* C39: a cache hit depends only on (fid, name).  While the cache holds an id under
\* a name, resolving an entry of that id and name returns the stored path without a
\* system lookup, whatever parent_fid the entry carries, whether or not it says it
\* is a directory, and whatever the volume would answer for the parent.
C39_HitIgnoresParent ==
    resolver.some =>
        \A e \in Mappings(resolver.entries), parent_fid \in ParentFids,
           is_dir \in BOOLEAN, ofParent \in LookupOutcomes :
            LET r == resolve_path_with_cache(ofParent, e.fid, parent_fid, e.name, is_dir,
                                             resolver.entries, resolver.cap)
            IN  /\ r.result = <<"Some", e.path>>
                /\ r.lookups = <<>>

\* an entry cached below one directory was resolved again, under the same name, as
\* a child of another directory whose path is cached: the old path was returned
C39_Witness ==
    /\ CachedCall
    /\ WasHit
    /\ last.parent_fid # last.fid
    /\ LruHas(last.before, last.parent_fid)
    /\ last.result = <<"Some", LruPeek(last.before, last.fid).path>>
    /\ last.result[2] # JoinPath(LruPeek(last.before, last.parent_fid).path, last.file_name)

\* the last call resolved anew, with success, a directory that is not its own
\* parent, on a cache of capacity 2 or more
DirResolvedBelowParent ==
    /\ CachedCall
    /\ resolver.cap >= 2
    /\ ~WasHit
    /\ last.is_dir
    /\ last.fid # last.parent_fid
    /\ last.result[1] = "Some"

\* C40: with a cache capacity of at least 2, after a successful re-resolution of a
\* directory whose fid differs from its parent_fid the cache holds both the parent's
\* id and the entry's id: inserting the entry does not evict the parent entry that
\* was just used or just inserted.
C40_ParentSurvivesInsert ==
    DirResolvedBelowParent =>
        /\ LruHas(resolver.entries, last.fid)
        /\ LruHas(resolver.entries, last.parent_fid)
        /\ resolver.entries[1].fid = last.fid
        /\ resolver.entries[2].fid = last.parent_fid

\* on a full cache of capacity 2 whose least recently used entry was the parent's, a
\* directory not yet cached was resolved: the other entry was evicted, not the parent
C40_Witness ==
    /\ DirResolvedBelowParent
    /\ resolver.cap = Len(last.before)
    /\ last.before[Len(last.before)].fid = last.parent_fid
    /\ ~LruHas(last.before, last.fid)
    /\ last.lookups = <<>>
    /\ LruHas(resolver.entries, last.parent_fid)
    /\ ~LruHas(resolver.entries, last.before[1].fid)

====
